---- MODULE Spec2Model ----
(***************************************************************************)
(* Relify relay engine: Router (internal/router.go) over Store             *)
(* (internal/store.go).  Handle is modelled as a process per call, with a  *)
(* step at every point where it reads or writes shared state (database,    *)
(* bridge cache, per-room lock, write queue) or calls an adapter.          *)
(***************************************************************************)
EXTENDS Bags, FiniteSets, Integers, Sequences, TLC

\* ---------------------------------------------------------------- bounds
MaxProcs == 2        \* Handle calls in one behaviour (all may overlap)
QueueCap == 2        \* capacity of Store.ops (2000 in the code), scaled
BatchMax == 2        \* batch size that forces a commit (100 in the code), scaled
MaxTime == 2         \* clock values 0..MaxTime
Retention == 1       \* age at which the cleaner deletes a mapping (48 h in the code), scaled
MaxOps == 3          \* direct Store.Map calls in the store specification
MaxLost == 2         \* discarded Store.Map calls that are counted
MaxBoots == 1        \* process restarts in the restart specification
MaxConns == 2        \* connections the OneBot client dials
MaxRecv == 3         \* events the adapters receive in the receive specification

Procs == 1..MaxProcs

\* ------------------------------------------------------- program constants
Msg == "msg"
Edit == "edit"
Note == "note"
Revoke == "revoke"
RouteMix == "mix"
RouteMirror == "mirror"

\* --------------------------------------------------------------- universe
Plats == {"P1", "P2", "P3"}
Ids == {"a", "b"}
Nil == [nil |-> TRUE]

\* rooms are <<tag, n>>: a source room, a room made by a Mirror adapter for
\* the Handle call n, the configured group of a Mix adapter, or ""
SrcRooms == {<<"r", 1>>, <<"r", 2>>}
NoRoom == <<"", 0>>
MixRoom == <<"group", 0>>
NewRoom(h) == <<"n", h>>

\* Driver.Route of each registered adapter: QQ-like P3 is Mix, the others Mirror
Route(p) == IF p = "P3" THEN RouteMix ELSE RouteMirror

VARIABLES
    mode, hub, reg,          \* Config.Mode, Config.Hub, Registry.m (names)
    groups, binds, maps,     \* database tables groups, binds, maps
    cache,                   \* Store.cache: key -> []*Group
    ops, batch,              \* Store.ops channel, writer's local batch
    execd,                   \* history: bag of mapping tuples the writer executed
    now,                     \* time.Now().Unix()
    cuts,                    \* history: the cut-off times of the cleaner's runs
    life,                    \* Store: "run", "stopping" (stop closed), "exited"
                             \* (writer returned), "closed" (db closed)
    matchLocks,              \* Router.matchLocks: key -> holder (0 = unlocked)
    pc, evt,                 \* per Handle call: position, event
    hist,                    \* history: what held when the call began
    hbinds,                  \* Handle's binds
    nodes, tq,               \* Match's nodes, remaining tPlats
    made,                    \* history: Make calls of this Match, with their results
    targets, refm,           \* Handle's targets, refMappings
    work,                    \* per target worker of the fan-out
    main,                    \* cmd/relify main: "boot", "starting", "serving",
                             \* "cancelled", "stopping", "stopped", "exit1"
    dstart, dstop,           \* per adapter: Driver.Start / Driver.Stop call
    results, successCount,   \* Core.Start: results channel, successCount
    startRet,                \* history: what Core.Start returned ("" = not yet)
    rootCtx, stopCtx,        \* main's ctx and stopCtx
    goQQ,                    \* QQ: handler goroutines spawned, not yet in Handle
    mxEvents,                \* Matrix: the as.Events channel
    recvLog, startLog,       \* history: events as received, Handle calls as begun
    boots, kept,             \* history: process restarts, the database at the last one
    lost,                    \* history: direct Store.Map calls that found the queue full
    adds, finds, wlock,      \* Store.Add and Store.Find calls in steps, SQLite's write lock
    rcv, flights,            \* singleflight router: Receive calls, sf.Group's calls in flight
    echoCache, saved,        \* its echoCache, the mappings it gave to Store.SaveMapping
    calls, conn, mu, rd      \* OneBot client: callWS calls, Client.conn, Client.mu, the reader

vars == <<mode, hub, reg, groups, binds, maps, cache, ops, batch, execd, now, life,
          cuts, matchLocks, pc, evt, hist, hbinds, nodes, tq, made, targets, refm, work,
          main, dstart, dstop, results, successCount, startRet, rootCtx, stopCtx,
          goQQ, mxEvents, recvLog, startLog, boots, kept, lost, adds, finds, wlock,
          rcv, flights, echoCache, saved, calls, conn, mu, rd>>

cfgVars == <<mode, hub, reg>>
dbVars == <<groups, binds, maps>>
writerVars == <<ops, batch, execd>>
matchVars == <<nodes, tq, made>>
fanVars == <<targets, refm, work>>
coreVars == <<main, dstart, dstop, results, successCount, startRet, rootCtx, stopCtx>>
recvVars == <<goQQ, mxEvents, recvLog, startLog>>
txVars == <<adds, finds, wlock>>
sfVars == <<rcv, flights, echoCache, saved>>
wsVars == <<calls, conn, mu, rd>>
auxVars == <<txVars, sfVars, wsVars>>
\* what the steps of Store.Find and Store.Add leave alone, besides the engine
txRest == <<coreVars, recvVars, boots, kept, sfVars, wsVars>>
bootVars == <<boots, kept, auxVars>>
sysVars == <<coreVars, recvVars, bootVars, lost>>
procVars == <<pc, evt, hist, hbinds, matchVars, fanVars>>
engineVars == <<cfgVars, dbVars, cache, writerVars, now, life, cuts, matchLocks, procVars, lost>>

SeqToSet(s) == {s[i] : i \in 1..Len(s)}

\* ------------------------------------------------------------------ Store
Key(plat, room) == <<plat, room>>

\* rows of binds with bind_id = bid, in rowid order
NodesOf(bid) ==
    LET sel == SelectSeq(binds, LAMBDA r: r.bid = bid)
    IN [i \in 1..Len(sel) |-> [plat |-> sel[i].plat, room |-> sel[i].room]]

BindRows(plat, room) == {r \in SeqToSet(binds): r.plat = plat /\ r.room = room}

\* a Find that answers from the cache alone
FindRes_CacheOnly(plat, room) ==
    IF Key(plat, room) \in DOMAIN cache THEN cache[Key(plat, room)] ELSE << >>

\* Store.Find: result
FindRes(plat, room) ==
    IF Key(plat, room) \in DOMAIN cache THEN cache[Key(plat, room)]
    ELSE IF BindRows(plat, room) = {} THEN << >>
    ELSE LET bid == (CHOOSE r \in BindRows(plat, room): TRUE).bid
         IN << [id |-> bid, nodes |-> NodesOf(bid)] >>

\* Store.Find: cache after the call (a found group is stored, a miss is not)
FindCache(plat, room) ==
    IF Key(plat, room) \in DOMAIN cache \/ BindRows(plat, room) = {} THEN cache
    ELSE [k \in DOMAIN cache \cup {Key(plat, room)} |->
            IF k = Key(plat, room) THEN FindRes(plat, room) ELSE cache[k]]

\* Store.Seek
SeekRows(sPlat, sMsg, dPlat) ==
    {r \in maps: r.sp = sPlat /\ r.sm = sMsg /\ r.dp = dPlat}
SeekFound(sPlat, sMsg, dPlat) == SeekRows(sPlat, sMsg, dPlat) # {}
Seek(sPlat, sMsg, dPlat) == (CHOOSE r \in SeekRows(sPlat, sMsg, dPlat): TRUE).dm

\* Store.Echo
Echo(plat, msg) == \E r \in maps: r.dp = plat /\ r.dm = msg

\* a plain INSERT into a maps table without primary key
MapInsert_NoKey(M, r) == M \cup {r}

\* INSERT OR REPLACE: the later row takes the place of the earlier one
MapInsert_Replace(M, r) ==
    {x \in M: ~(x.sp = r.sp /\ x.sm = r.sm /\ x.dp = r.dp)} \cup {r}

\* INSERT OR IGNORE INTO maps ... PRIMARY KEY (src_plat, src_msg, dst_plat)
MapInsert(M, r) ==
    IF \E x \in M: x.sp = r.sp /\ x.sm = r.sm /\ x.dp = r.dp THEN M ELSE M \cup {r}

\* the row an operation queued by Store.Map inserts: ts is time.Now() at execution
Stamp(o) == [sp |-> o.sp, sm |-> o.sm, dp |-> o.dp, dm |-> o.dm, bid |-> o.bid, ts |-> now]

\* the operation queued by the cleaner: DELETE FROM maps WHERE ts < exp
PurgeOp(exp) == [exp |-> exp]
IsPurge(o) == "exp" \in DOMAIN o

\* a cleaner whose DELETE removes nothing
ApplyOp_NoPurge(M, o) == IF IsPurge(o) THEN M ELSE MapInsert(M, Stamp(o))

\* one queued operation run in the writer's transaction
ApplyOp(M, o) ==
    IF IsPurge(o) THEN {r \in M: ~(r.ts < o.exp)} ELSE MapInsert(M, Stamp(o))

\* the writer's exec: every op of the batch in one transaction
RECURSIVE ApplyOps(_, _)
ApplyOps(b, M) == IF b = << >> THEN M ELSE ApplyOps(Tail(b), ApplyOp(M, Head(b)))

Tuple4(r) == <<r.sp, r.sm, r.dp, r.dm>>
\* history: what an executed operation is logged as
LogOf(o) == IF IsPurge(o) THEN <<"purge", o.exp>> ELSE Tuple4(o)
RECURSIVE LogOps(_, _)
LogOps(b, L) == IF b = << >> THEN L ELSE LogOps(Tail(b), L (+) SetToBag({LogOf(Head(b))}))

\* a push that makes room by discarding the oldest queued operation
Pushed_Evict(q, r) == IF Len(q) < QueueCap THEN Append(q, r) ELSE Append(Tail(q), r)

\* Store.push: non-blocking send on the buffered channel
Pushed(q, r) == IF Len(q) < QueueCap THEN Append(q, r) ELSE q

\* Store.Map: the queued operation
MapRow(sPlat, sMsg, dPlat, dMsg, bid) ==
    [sp |-> sPlat, sm |-> sMsg, dp |-> dPlat, dm |-> dMsg, bid |-> bid]

\* a binds table without its primary key: no insert is refused
AddConflict_NoKey(ns) == 0

\* Store.Add: index of the first node whose INSERT INTO binds hits the
\* primary key (plat, room), 0 when every insert succeeds
AddConflict(ns) ==
    LET bad == {i \in 1..Len(ns):
                   \/ BindRows(ns[i].plat, ns[i].room) # {}
                   \/ \E j \in 1..(i-1): ns[j].plat = ns[i].plat /\ ns[j].room = ns[i].room}
    IN IF bad = {} THEN 0 ELSE CHOOSE i \in bad: \A j \in bad: i <= j
AddOk(ns) == AddConflict(ns) = 0
AddId == Cardinality(groups) + 1
\* an Add without a transaction: the rows inserted before the failure stay
AddBinds_Partial(ns) ==
    LET last == IF AddOk(ns) THEN Len(ns) ELSE AddConflict(ns) - 1
    IN binds \o [i \in 1..last |-> [bid |-> AddId, plat |-> ns[i].plat, room |-> ns[i].room]]

\* Store.Add: the binds rows after the commit, or after the rollback
AddBinds(ns) ==
    IF AddOk(ns)
    THEN binds \o [i \in 1..Len(ns) |-> [bid |-> AddId, plat |-> ns[i].plat, room |-> ns[i].room]]
    ELSE binds
AddGroups(ns) == IF AddOk(ns) THEN groups \cup {AddId} ELSE groups
\* cache.Delete of every node inserted before the transaction ended
AddCache(ns) ==
    LET last == IF AddOk(ns) THEN Len(ns) ELSE AddConflict(ns) - 1
        gone == {Key(ns[i].plat, ns[i].room) : i \in 1..last}
    IN [k \in DOMAIN cache \ gone |-> cache[k]]

\* ----------------------------------------------------------------- Router
isRevoke(e) == e.sub = Revoke

needRefConvert(e) ==
    \/ (e.kind = Note /\ isRevoke(e))
    \/ e.kind = Edit
    \/ (e.kind = Msg /\ e.ref # "")

isCriticalOp(e) == (e.kind = Note /\ isRevoke(e)) \/ e.kind = Edit

\* copyEvt copies Kind, Plat, Room, User, ID, Ref, Time, Segs, Extra; the
\* remaining fields of the copy keep their zero value
copyEvt(src) ==
    [id |-> src.id, kind |-> src.kind, plat |-> src.plat, room |-> src.room,
     user |-> src.user, name |-> "", ref |-> src.ref, segs |-> src.segs,
     sub |-> src.sub]

\* isValidEvent: an empty message and an echo are invalid
isEmptyMsg(e) == e.kind = Msg /\ e.segs = 0
\* validity without the echo lookup
isValidEvent_NoEcho(e) == ~isEmptyMsg(e)
isValidEvent(e) == ~isEmptyMsg(e) /\ ~Echo(e.plat, e.id)

\* a mapping saved for every kind of event that got an id
ShouldMap_AnyKind(out, nid) == nid # ""

\* Push, line 446: a mapping is saved for a message that got an id
ShouldMap(out, nid) == out.kind = Msg /\ nid # ""

\* a Match that lets the hub start bridges
fromHub_Off(e) == FALSE

\* Match, line 271: in hub mode an event of the hub platform starts no bridge
fromHub(e) == mode = "hub" /\ e.plat = hub

\* target platforms that do not leave out the source
getTargetPlatforms_WithSrc(srcPlat) ==
    IF mode = "hub" THEN {hub} ELSE reg

\* getTargetPlatforms: the hub alone, or every registered platform but the source
getTargetPlatforms(srcPlat) ==
    IF mode = "hub" THEN {hub} ELSE reg \ {srcPlat}

\* the orders in which the target list can be built (Go map iteration order)
Perms(S) == {s \in [1..Cardinality(S) -> S]: \A x \in S: \E i \in DOMAIN s: s[i] = x}

\* a target choice that does not leave out the source platform
isTarget_WithSrc(srcPlat, n) == n.plat \in reg

\* collectTargets, lines 195-200: not the source platform, adapter registered
isTarget(srcPlat, n) == n.plat # srcPlat /\ n.plat \in reg

\* collectTargets: nodes of the groups on another, registered platform
RECURSIVE collectNodes(_, _, _)
collectNodes(srcPlat, ns, bid) ==
    IF ns = << >> THEN << >>
    ELSE LET n == Head(ns)
             rest == collectNodes(srcPlat, Tail(ns), bid)
         IN IF isTarget(srcPlat, n)
            THEN <<[node |-> n, bid |-> bid]>> \o rest
            ELSE rest

RECURSIVE collectTargets(_, _)
collectTargets(srcPlat, bs) ==
    IF bs = << >> THEN << >>
    ELSE collectNodes(srcPlat, Head(bs).nodes, Head(bs).id) \o collectTargets(srcPlat, Tail(bs))

\* prepareRefMappings: target platform -> translated id; the empty function is nil
prepareRefMappings(e, ts) ==
    IF ~needRefConvert(e) \/ e.ref = "" THEN [p \in {} |-> ""]
    ELSE LET found == {p \in {ts[i].node.plat : i \in 1..Len(ts)}: SeekFound(e.plat, e.ref, p)}
         IN [p \in found |-> Seek(e.plat, e.ref, p)]

\* Fix dropping a reply whose ref has no mapping
Fix_DropReply(src, node, rm) ==
    IF ~needRefConvert(src) THEN copyEvt(src)
    ELSE IF src.ref = "" THEN (IF isCriticalOp(src) THEN Nil ELSE copyEvt(src))
    ELSE LET found == IF DOMAIN rm # {} THEN node.plat \in DOMAIN rm
                      ELSE SeekFound(src.plat, src.ref, node.plat)
             tid == IF DOMAIN rm # {} THEN rm[node.plat]
                    ELSE Seek(src.plat, src.ref, node.plat)
         IN IF found THEN [copyEvt(src) EXCEPT !.ref = tid] ELSE Nil

\* Fix degrading an edit or revoke like a reply: sent with the ref cleared
Fix_NoStrict(src, node, rm) ==
    IF ~needRefConvert(src) \/ src.ref = "" THEN copyEvt(src)
    ELSE LET found == IF DOMAIN rm # {} THEN node.plat \in DOMAIN rm
                      ELSE SeekFound(src.plat, src.ref, node.plat)
             tid == IF DOMAIN rm # {} THEN rm[node.plat]
                    ELSE Seek(src.plat, src.ref, node.plat)
         IN IF found THEN [copyEvt(src) EXCEPT !.ref = tid]
            ELSE [copyEvt(src) EXCEPT !.ref = ""]

\* Fix forwarding the source-side ref when a mapping is found
Fix_KeepRef(src, node, rm) ==
    IF ~needRefConvert(src) THEN copyEvt(src)
    ELSE IF src.ref = "" THEN (IF isCriticalOp(src) THEN Nil ELSE copyEvt(src))
    ELSE LET found == IF DOMAIN rm # {} THEN node.plat \in DOMAIN rm
                      ELSE SeekFound(src.plat, src.ref, node.plat)
         IN IF found THEN copyEvt(src)
            ELSE IF isCriticalOp(src) THEN Nil
            ELSE [copyEvt(src) EXCEPT !.ref = ""]

\* Fix: the event to send to node, or Nil when the event is dropped for it
Fix(src, node, rm) ==
    IF ~needRefConvert(src) THEN copyEvt(src)
    ELSE IF src.ref = "" THEN (IF isCriticalOp(src) THEN Nil ELSE copyEvt(src))
    ELSE LET found == IF DOMAIN rm # {} THEN node.plat \in DOMAIN rm
                      ELSE SeekFound(src.plat, src.ref, node.plat)
             tid == IF DOMAIN rm # {} THEN rm[node.plat]
                    ELSE Seek(src.plat, src.ref, node.plat)
         IN IF found THEN [copyEvt(src) EXCEPT !.ref = tid]
            ELSE IF isCriticalOp(src) THEN Nil
            ELSE [copyEvt(src) EXCEPT !.ref = ""]

\* what Driver.Send of platform p can return: an error, or an id (possibly empty)
SendIds(p) == IF p = "P3" THEN {"b"} ELSE Ids
SendResults(p) ==
    {[err |-> TRUE, nid |-> ""]} \cup {[err |-> FALSE, nid |-> x] : x \in SendIds(p) \cup {""}}

\* what Driver.Make can return for the Match of call h: an error, or a room.
\* A Mix adapter returns its configured group, a Mirror adapter a new room or ""
MakeResults(p, h) ==
    {[err |-> TRUE, room |-> NoRoom]} \cup
    {[err |-> FALSE, room |-> r] :
        r \in IF Route(p) = RouteMix THEN {MixRoom} ELSE {NoRoom, NewRoom(h)}}

\* a Match that persists whatever nodes it has
tooFewNodes_Never(ns) == FALSE

\* Match, line 347: a bridge needs the source and at least one target
tooFewNodes(ns) == Len(ns) < 2

\* a Match that aborts on a failed target in every mode
fatalTarget_Always == TRUE

\* Match, lines 321 and 333: a failed target ends the match in hub mode
fatalTarget == mode = "hub"

\* a Match that ignores the error of createTargetRoom
makeFailed_Never(res) == FALSE

\* Match, line 328: err != nil after createTargetRoom
makeFailed(res) == res.err

NoWork == [st |-> "todo", out |-> Nil, nid |-> "", put |-> FALSE]

\* a Send error that cancels the workers of the other targets
SendFailed_Cancel(w, i, out) ==
    [j \in DOMAIN w |->
        IF j = i THEN [st |-> "fail", out |-> out, nid |-> "", put |-> FALSE]
        ELSE IF w[j].st = "todo" THEN [w[j] EXCEPT !.st = "cancel"] ELSE w[j]]

\* Push, lines 430-437: a Send error is logged and ends this worker alone
SendFailed(w, i, out) ==
    [w EXCEPT ![i] = [st |-> "fail", out |-> out, nid |-> "", put |-> FALSE]]

\* Send was called for target i of call h
Sent(h, i) == work[h][i].st \in {"sent", "fail"}

\* history: a successful Send to plat has returned id
Produced(plat, id) ==
    \E g \in Procs: \E i \in DOMAIN work[g]:
        work[g][i].st = "sent" /\ work[g][i].nid = id /\ targets[g][i].node.plat = plat

\* ---------------------------------------------------------------- actions
\* a Handle call is made with event e; the calls are numbered in the order
\* in which they begin.  Handle, lines 88-93: isValidEvent with Store.Echo
HandleValid(h, e) ==
    /\ pc[h] = "idle"
    /\ \A g \in 1..(h-1): pc[g] # "idle"
    /\ evt' = [evt EXCEPT ![h] = e]
    /\ hist' = [hist EXCEPT ![h] = [echo |-> Echo(e.plat, e.id), due |-> Produced(e.plat, e.id)]]
    /\ pc' = [pc EXCEPT ![h] = IF isValidEvent(e) THEN "find" ELSE "done"]
    /\ UNCHANGED <<sysVars, cfgVars, life, cuts, dbVars, cache, writerVars, now, matchLocks, hbinds, matchVars, fanVars>>

\* Handle(ctx, nil), lines 90-91: isValidEvent is false for e == nil, and the
\* arguments of the slog.Debug call that follows read e.Plat, e.Room and e.Kind
\* through the nil pointer: a run-time panic in the caller's goroutine
HandleNil(h) ==
    /\ pc[h] = "idle"
    /\ \A g \in 1..(h-1): pc[g] # "idle"
    /\ evt' = [evt EXCEPT ![h] = Nil]
    /\ pc' = [pc EXCEPT ![h] = "panic"]
    /\ UNCHANGED <<sysVars, cfgVars, life, cuts, dbVars, cache, writerVars, now, matchLocks, hist, hbinds, matchVars, fanVars>>

\* Handle, lines 109-120: reg.Get of the source, Store.Find
HandleFind(h) ==
    /\ pc[h] = "find"
    /\ IF evt[h].plat \notin reg
       THEN /\ pc' = [pc EXCEPT ![h] = "done"]
            /\ UNCHANGED <<cache, hbinds>>
       ELSE /\ hbinds' = [hbinds EXCEPT ![h] = FindRes(evt[h].plat, evt[h].room)]
            /\ cache' = FindCache(evt[h].plat, evt[h].room)
            /\ pc' = [pc EXCEPT ![h] = IF hbinds'[h] = << >> THEN "match" ELSE "collect"]
    /\ UNCHANGED <<sysVars, cfgVars, life, cuts, dbVars, writerVars, now, matchLocks, evt, hist, matchVars, fanVars>>

\* a Match that does not wait for the room lock
lockFree_Always(k) == TRUE

\* Match, line 277: mu.Lock returns when no other call holds the room's mutex
lockFree(k) == matchLocks[k] = 0

\* a Match that leaves its room lock held
Unlocked_Held(k) == matchLocks

\* Match, line 278: the deferred mu.Unlock, run on every return
Unlocked(k) == [matchLocks EXCEPT ![k] = 0]

\* Match, lines 270-276: the hub guard, then getRoomLock (LoadOrStore)
MatchBegin(h) ==
    /\ pc[h] = "match"
    /\ LET k == Key(evt[h].plat, evt[h].room) IN
       IF fromHub(evt[h])
       THEN /\ pc' = [pc EXCEPT ![h] = "collect"]
            /\ UNCHANGED matchLocks
       ELSE /\ pc' = [pc EXCEPT ![h] = "lock"]
            /\ matchLocks' = IF k \in DOMAIN matchLocks THEN matchLocks
                             ELSE [x \in DOMAIN matchLocks \cup {k} |->
                                     IF x = k THEN 0 ELSE matchLocks[x]]
    /\ UNCHANGED <<sysVars, cfgVars, life, cuts, dbVars, cache, writerVars, now, evt, hist, hbinds, matchVars, fanVars>>

\* Match, lines 277-307: mu.Lock, the re-check under the lock, the target list
MatchLock(h) ==
    /\ pc[h] = "lock"
    /\ LET k == Key(evt[h].plat, evt[h].room)
           found == FindRes(evt[h].plat, evt[h].room)
           tp == getTargetPlatforms(evt[h].plat)
       IN /\ lockFree(k)
          /\ cache' = FindCache(evt[h].plat, evt[h].room)
          /\ IF found # << >>
             THEN /\ hbinds' = [hbinds EXCEPT ![h] = found]
                  /\ pc' = [pc EXCEPT ![h] = "collect"]
                  /\ UNCHANGED <<matchLocks, nodes, tq>>
             ELSE IF tp = {}
             THEN /\ pc' = [pc EXCEPT ![h] = "done"]
                  /\ UNCHANGED <<matchLocks, hbinds, nodes, tq>>
             ELSE /\ matchLocks' = [matchLocks EXCEPT ![k] = h]
                  /\ nodes' = [nodes EXCEPT ![h] = <<[plat |-> evt[h].plat, room |-> evt[h].room]>>]
                  /\ \E order \in Perms(tp): tq' = [tq EXCEPT ![h] = order]
                  /\ pc' = [pc EXCEPT ![h] = "make"]
                  /\ UNCHANGED hbinds
    /\ UNCHANGED <<sysVars, cfgVars, life, cuts, dbVars, writerVars, now, evt, hist, made, fanVars>>

\* Match, lines 317-344: one iteration of the loop over the target platforms
MatchMake(h) ==
    /\ pc[h] = "make"
    /\ LET k == Key(evt[h].plat, evt[h].room)
           tn == Head(tq[h])
           next == IF Len(tq[h]) = 1 THEN "add" ELSE "make"
       IN IF tn \notin reg
          THEN /\ IF fatalTarget
                  THEN /\ pc' = [pc EXCEPT ![h] = "done"]
                       /\ matchLocks' = Unlocked(k)
                  ELSE /\ pc' = [pc EXCEPT ![h] = next]
                       /\ UNCHANGED matchLocks
               /\ tq' = [tq EXCEPT ![h] = Tail(tq[h])]
               /\ UNCHANGED <<nodes, made>>
          ELSE \E res \in MakeResults(tn, h):
               /\ made' = [made EXCEPT ![h] = Append(made[h], [plat |-> tn, err |-> res.err, room |-> res.room])]
               /\ tq' = [tq EXCEPT ![h] = Tail(tq[h])]
               /\ IF makeFailed(res)
                  THEN /\ IF fatalTarget
                          THEN /\ pc' = [pc EXCEPT ![h] = "done"]
                               /\ matchLocks' = Unlocked(k)
                          ELSE /\ pc' = [pc EXCEPT ![h] = next]
                               /\ UNCHANGED matchLocks
                       /\ UNCHANGED nodes
                  ELSE /\ nodes' = [nodes EXCEPT ![h] = Append(nodes[h], [plat |-> tn, room |-> res.room])]
                       /\ pc' = [pc EXCEPT ![h] = next]
                       /\ UNCHANGED matchLocks
    /\ UNCHANGED <<sysVars, cfgVars, life, cuts, dbVars, cache, writerVars, now, evt, hist, hbinds, fanVars>>

\* Match, lines 346-369: the node count, Store.Add, the deferred mu.Unlock
MatchAdd(h) ==
    /\ pc[h] = "add"
    /\ LET k == Key(evt[h].plat, evt[h].room) IN
       /\ matchLocks' = Unlocked(k)
       /\ IF tooFewNodes(nodes[h])
          THEN /\ pc' = [pc EXCEPT ![h] = "done"]
               /\ UNCHANGED <<dbVars, cache, hbinds>>
          ELSE /\ groups' = AddGroups(nodes[h])
               /\ binds' = AddBinds(nodes[h])
               /\ cache' = AddCache(nodes[h])
               /\ UNCHANGED maps
               /\ IF AddOk(nodes[h])
                  THEN /\ hbinds' = [hbinds EXCEPT ![h] = <<[id |-> AddId, nodes |-> nodes[h]]>>]
                       /\ pc' = [pc EXCEPT ![h] = "collect"]
                  ELSE /\ pc' = [pc EXCEPT ![h] = "done"]
                       /\ UNCHANGED hbinds
    /\ UNCHANGED <<sysVars, cfgVars, life, cuts, writerVars, now, evt, hist, matchVars, fanVars>>

\* Handle, lines 141-165: collectTargets, prepareRefMappings, one worker per target
HandleCollect(h) ==
    /\ pc[h] = "collect"
    /\ LET ts == collectTargets(evt[h].plat, hbinds[h]) IN
       IF ts = << >>
       THEN /\ pc' = [pc EXCEPT ![h] = "done"]
            /\ UNCHANGED fanVars
       ELSE /\ targets' = [targets EXCEPT ![h] = ts]
            /\ refm' = [refm EXCEPT ![h] = prepareRefMappings(evt[h], ts)]
            /\ work' = [work EXCEPT ![h] = [i \in 1..Len(ts) |-> NoWork]]
            /\ pc' = [pc EXCEPT ![h] = "fan"]
    /\ UNCHANGED <<sysVars, cfgVars, life, cuts, dbVars, cache, writerVars, now, matchLocks, evt, hist, hbinds, matchVars>>

\* Push for target i of call h: Fix, Driver.Send (which returns one of the
\* results R), Store.Map
Push(h, i, R) ==
    /\ pc[h] = "fan"
    /\ i \in DOMAIN work[h]
    /\ work[h][i].st = "todo"
    /\ LET t == targets[h][i]
           out == Fix(evt[h], t.node, refm[h])
       IN IF out = Nil
          THEN /\ work' = [work EXCEPT ![h][i].st = "drop"]
               /\ UNCHANGED ops
          ELSE \E res \in R \cap SendResults(t.node.plat):
               IF res.err
               THEN /\ work' = [work EXCEPT ![h] = SendFailed(work[h], i, out)]
                    /\ UNCHANGED ops
               ELSE LET save == ShouldMap(out, res.nid) IN
                    /\ work' = [work EXCEPT ![h][i] = [st |-> "sent", out |-> out, nid |-> res.nid, put |-> save]]
                    /\ ops' = IF save
                              THEN Pushed(ops, MapRow(evt[h].plat, evt[h].id, t.node.plat, res.nid, t.bid))
                              ELSE ops
    /\ UNCHANGED <<sysVars, cfgVars, life, cuts, dbVars, cache, batch, execd, now, matchLocks, pc, evt, hist, hbinds, matchVars, targets, refm>>

\* a Handle that does not wait for its workers
workersDone_NoWait(h) == TRUE

\* Handle, line 167: wg.Wait returns when every worker has called wg.Done
workersDone(h) == \A i \in DOMAIN work[h]: work[h][i].st # "todo"

\* Handle, lines 167-168: wg.Wait, return
HandleReturn(h) ==
    /\ pc[h] = "fan"
    /\ workersDone(h)
    /\ pc' = [pc EXCEPT ![h] = "done"]
    /\ UNCHANGED <<sysVars, cfgVars, life, cuts, dbVars, cache, writerVars, now, matchLocks, evt, hist, hbinds, matchVars, fanVars>>

\* writer, lines 128-133: an operation is received; a full batch is committed
WriterRecv ==
    /\ life \in {"run", "stopping"}
    /\ ops # << >>
    /\ ops' = Tail(ops)
    /\ LET b == Append(batch, Head(ops)) IN
       IF Len(b) >= BatchMax
       THEN /\ maps' = ApplyOps(b, maps)
            /\ execd' = LogOps(b, execd)
            /\ batch' = << >>
       ELSE /\ batch' = b
            /\ UNCHANGED <<maps, execd>>
    /\ UNCHANGED <<sysVars, cfgVars, life, cuts, groups, binds, cache, now, matchLocks, pc, evt, hist, hbinds, matchVars, fanVars>>

\* writer, lines 134-136: the ticker fires and the batch is committed
WriterTick ==
    /\ life \in {"run", "stopping"}
    /\ batch # << >>
    /\ maps' = ApplyOps(batch, maps)
    /\ execd' = LogOps(batch, execd)
    /\ batch' = << >>
    /\ UNCHANGED <<sysVars, cfgVars, life, cuts, groups, binds, cache, ops, now, matchLocks, pc, evt, hist, hbinds, matchVars, fanVars>>

\* writer, lines 137-140: the stop case of the select is taken (it can be
\* while operations wait in Store.ops); the batch is committed, the writer returns
WriterStop ==
    /\ life = "stopping"
    /\ maps' = ApplyOps(batch, maps)
    /\ execd' = LogOps(batch, execd)
    /\ batch' = << >>
    /\ life' = "exited"
    /\ UNCHANGED <<sysVars, cfgVars, cuts, groups, binds, cache, ops, now, matchLocks, pc, evt, hist, hbinds, matchVars, fanVars>>

\* Store.Close, line 86: close(s.stop)
CloseStop ==
    /\ life = "run"
    /\ life' = "stopping"
    /\ UNCHANGED <<sysVars, cfgVars, cuts, dbVars, cache, writerVars, now, matchLocks, pc, evt, hist, hbinds, matchVars, fanVars>>

\* Store.Close, lines 87-92: wg.Wait has returned, db.Close
CloseDb ==
    /\ life = "exited"
    /\ life' = "closed"
    /\ UNCHANGED <<sysVars, cfgVars, cuts, dbVars, cache, writerVars, now, matchLocks, pc, evt, hist, hbinds, matchVars, fanVars>>

\* writer, lines 134-136 with exec, lines 110-114: the ticker fires and
\* db.Begin returns an error; the batch is reset without being executed
WriterTickFail ==
    /\ life \in {"run", "stopping"}
    /\ batch # << >>
    /\ batch' = << >>
    /\ UNCHANGED <<sysVars, cfgVars, life, cuts, dbVars, cache, ops, execd, now, matchLocks, pc, evt, hist, hbinds, matchVars, fanVars>>

\* a direct Store.Map call (Router.Push is its caller in the engine)
StoreMap(sPlat, sMsg, dPlat, dMsg, bid) ==
    /\ BagCardinality(execd) + Len(ops) + Len(batch) < MaxOps
    /\ ops' = Pushed(ops, MapRow(sPlat, sMsg, dPlat, dMsg, bid))
    /\ lost' = IF Len(ops) < QueueCap \/ lost = MaxLost THEN lost ELSE lost + 1
    /\ UNCHANGED <<coreVars, recvVars, bootVars, cfgVars, life, cuts, dbVars, cache, batch, execd, now, matchLocks, pc, evt, hist, hbinds, matchVars, fanVars>>

\* cleaner, lines 395-400: the ticker fires (at most once per clock value) and
\* the DELETE of the rows older than the retention is pushed on the queue
Cleaner ==
    /\ life = "run"
    /\ now - Retention \notin cuts
    /\ cuts' = cuts \cup {now - Retention}
    /\ ops' = Pushed(ops, PurgeOp(now - Retention))
    /\ UNCHANGED <<sysVars, cfgVars, life, dbVars, cache, batch, execd, now, matchLocks, pc, evt, hist, hbinds, matchVars, fanVars>>

\* the clock advances
Tick ==
    /\ now < MaxTime
    /\ now' = now + 1
    /\ UNCHANGED <<sysVars, cfgVars, life, cuts, dbVars, cache, writerVars, matchLocks, pc, evt, hist, hbinds, matchVars, fanVars>>

\* ------------------------------------------------------- Core and main
\* a Start failure that ends Core.Start whoever failed
isHubFailure_Any(res) == res.err

\* Core.Start, line 303: the failed adapter is the hub of a hub deployment
isHubFailure(res) == res.err /\ mode = "hub" /\ hub = res.name

\* Core.Stop, line 348: wg.Wait returns when every adapter's Stop has returned
stopsReturned == \A p \in reg: dstop[p] = "ret"

\* main, lines 126-130: a failed Start is followed by cancel() and os.Exit(1)
StartFailed(why) ==
    /\ startRet' = why
    /\ main' = "exit1"
    /\ rootCtx' = "cancelled"

\* Core.Start, lines 266-290: no adapter registered is an error; otherwise
\* one goroutine per adapter is started
CoreStartBegin ==
    /\ main = "boot"
    /\ IF reg = {}
       THEN /\ StartFailed("nodrivers")
            /\ UNCHANGED dstart
       ELSE /\ main' = "starting"
            /\ dstart' = [p \in Plats |-> IF p \in reg THEN "run" ELSE "none"]
            /\ UNCHANGED <<startRet, rootCtx>>
    /\ UNCHANGED <<engineVars, recvVars, bootVars, dstop, results, successCount, stopCtx>>

\* Core.Start, lines 285-289: the goroutine of adapter p sends the result of
\* drv.Start on the buffered channel
DrvStart(p, err) ==
    /\ dstart[p] = "run"
    /\ dstart' = [dstart EXCEPT ![p] = IF err THEN "err" ELSE "ok"]
    /\ results' = Append(results, [name |-> p, err |-> err])
    /\ UNCHANGED <<engineVars, recvVars, bootVars, main, dstop, successCount, startRet, rootCtx, stopCtx>>

\* Core.Start, lines 300-313: one result is received
CoreStartRecv ==
    /\ main = "starting"
    /\ results # << >>
    /\ results' = Tail(results)
    /\ LET res == Head(results) IN
       IF isHubFailure(res)
       THEN /\ StartFailed("hub")
            /\ UNCHANGED successCount
       ELSE /\ successCount' = IF res.err THEN successCount ELSE successCount + 1
            /\ UNCHANGED <<main, startRet, rootCtx>>
    /\ UNCHANGED <<engineVars, recvVars, bootVars, dstart, dstop, stopCtx>>

\* Core.Start, lines 293-296 and 315-321: the channel is closed and drained
CoreStartDone ==
    /\ main = "starting"
    /\ results = << >>
    /\ \A p \in reg: dstart[p] # "run"
    /\ IF successCount = 0
       THEN StartFailed("noactive")
       ELSE /\ startRet' = "nil"
            /\ main' = "serving"
            /\ UNCHANGED rootCtx
    /\ UNCHANGED <<engineVars, recvVars, bootVars, dstart, dstop, results, successCount, stopCtx>>

\* main, lines 135-141: the signal arrives, cancel()
MainSignal ==
    /\ main = "serving"
    /\ rootCtx' = "cancelled"
    /\ main' = "cancelled"
    /\ UNCHANGED <<engineVars, recvVars, bootVars, dstart, dstop, results, successCount, startRet, stopCtx>>

\* main, lines 144-147, Core.Stop, lines 334-346: the stop context with its
\* deadline, one goroutine per adapter calling drv.Stop
CoreStopBegin ==
    /\ main = "cancelled"
    /\ stopCtx' = "live"
    /\ dstop' = [p \in Plats |-> IF p \in reg THEN "run" ELSE "none"]
    /\ main' = "stopping"
    /\ UNCHANGED <<engineVars, recvVars, bootVars, dstart, results, successCount, startRet, rootCtx>>

\* the Stop of adapter p returns (Core.Stop, lines 340-345)
DrvStop(p) ==
    /\ dstop[p] = "run"
    /\ dstop' = [dstop EXCEPT ![p] = "ret"]
    /\ UNCHANGED <<engineVars, recvVars, bootVars, main, dstart, results, successCount, startRet, rootCtx, stopCtx>>

\* the deadline of stopCtx passes (main, line 144)
StopExpire ==
    /\ main = "stopping"
    /\ stopCtx = "live"
    /\ stopCtx' = "expired"
    /\ UNCHANGED <<engineVars, recvVars, bootVars, main, dstart, dstop, results, successCount, startRet, rootCtx>>

\* Core.Stop, lines 348-352: after wg.Wait, Store.Close begins
CoreStopClose ==
    /\ main = "stopping"
    /\ stopsReturned
    /\ CloseStop

\* Core.Stop, lines 352-357: Store.Close has returned, Core.Stop returns
CoreStopReturn ==
    /\ main = "stopping"
    /\ life = "closed"
    /\ main' = "stopped"
    /\ UNCHANGED <<engineVars, recvVars, bootVars, dstart, dstop, results, successCount, startRet, rootCtx, stopCtx>>

\* ------------------------------------------------- adapters receiving
\* the adapters by their routes: QQ is the Mix adapter, Matrix a Mirror one
QQPlat == "P3"
MatrixPlat == "P2"

\* the next event an adapter receives from room r
Arrival(p, r) == [plat |-> p, room |-> r, n |-> Len(recvLog) + 1]

\* QQ, Client.processMessage (and handleHTTPRequest): an event push is handed
\* to a new goroutine, go c.handler(msg)
processMessage(r) ==
    /\ Len(recvLog) < MaxRecv
    /\ recvLog' = Append(recvLog, Arrival(QQPlat, r))
    /\ goQQ' = goQQ \cup {Arrival(QQPlat, r)}
    /\ UNCHANGED <<engineVars, coreVars, bootVars, mxEvents, startLog>>

\* QQ.handleMsg in its goroutine: the event is built and Router.Handle called
handleMsg(e) ==
    /\ e \in goQQ
    /\ goQQ' = goQQ \ {e}
    /\ startLog' = Append(startLog, e)
    /\ UNCHANGED <<engineVars, coreVars, bootVars, mxEvents, recvLog>>

\* Matrix: the appservice puts an event of the homeserver on as.Events
matrixPush(r) ==
    /\ Len(recvLog) < MaxRecv
    /\ recvLog' = Append(recvLog, Arrival(MatrixPlat, r))
    /\ mxEvents' = Append(mxEvents, Arrival(MatrixPlat, r))
    /\ UNCHANGED <<engineVars, coreVars, bootVars, goQQ, startLog>>

\* Matrix.startServe, lines 117-129: the one goroutine takes the next event
\* and runs processEvent, which calls Router.Handle, to its end
startServe ==
    /\ rootCtx = "live"
    /\ mxEvents # << >>
    /\ mxEvents' = Tail(mxEvents)
    /\ startLog' = Append(startLog, Head(mxEvents))
    /\ UNCHANGED <<engineVars, coreVars, bootVars, goQQ, recvLog>>

\* -------------------------------------------------------- initial states
NoEvt == [id |-> "", kind |-> "", plat |-> "", room |-> NoRoom, user |-> "",
          name |-> "", ref |-> "", segs |-> 0, sub |-> ""]

InitProcs ==
    /\ pc = [h \in Procs |-> "idle"]
    /\ evt = [h \in Procs |-> NoEvt]
    /\ hist = [h \in Procs |-> [echo |-> FALSE, due |-> FALSE]]
    /\ hbinds = [h \in Procs |-> << >>]
    /\ nodes = [h \in Procs |-> << >>]
    /\ tq = [h \in Procs |-> << >>]
    /\ made = [h \in Procs |-> << >>]
    /\ targets = [h \in Procs |-> << >>]
    /\ refm = [h \in Procs |-> [p \in {} |-> ""]]
    /\ work = [h \in Procs |-> << >>]

InitStore ==
    /\ maps = {}
    /\ cache = [k \in {} |-> << >>]
    /\ ops = << >>
    /\ batch = << >>
    /\ execd = EmptyBag
    /\ now = 0
    /\ life = "run"
    /\ cuts = {}
    /\ matchLocks = [k \in {} |-> 0]

\* the process after a successful Core.Start, no event received yet
\* no Store.Add and no Store.Find call in steps
NoAdd == [st |-> "idle", ns |-> << >>, i |-> 0, rows |-> << >>, bid |-> 0, err |-> FALSE]
NoFind == [st |-> "idle", key |-> Key("", NoRoom), bid |-> 0, res |-> << >>, c0 |-> 0]

NoRecv == [st |-> "idle", e |-> Nil, group |-> Nil, err |-> FALSE]

\* no callWS call; conn is the connection the call has read from Client.conn
NoCall == [st |-> "idle", conn |-> 0, err |-> FALSE]

InitAux ==
    /\ adds = [a \in Procs |-> NoAdd]
    /\ finds = [f \in Procs |-> NoFind]
    /\ wlock = 0
    /\ rcv = [r \in Procs |-> NoRecv]
    /\ flights = [k \in {} |-> 0]
    /\ echoCache = {}
    /\ saved = {}
    /\ calls = [c \in Procs |-> NoCall]
    /\ conn = 0
    /\ mu = {}
    /\ rd = "dial"

InitServing ==
    /\ main = "serving"
    /\ dstart = [p \in Plats |-> IF p \in reg THEN "ok" ELSE "none"]
    /\ dstop = [p \in Plats |-> "none"]
    /\ results = << >> /\ successCount = Cardinality(reg) /\ startRet = "nil"
    /\ rootCtx = "live" /\ stopCtx = "none"
    /\ goQQ = {} /\ mxEvents = << >> /\ recvLog = << >> /\ startLog = << >>
    /\ boots = 0 /\ kept = [maps |-> {}, binds |-> << >>] /\ lost = 0
    /\ InitAux

\* the bridge of scenario 1, persisted by an earlier run
Bridge1 == <<[bid |-> 1, plat |-> "P1", room |-> <<"r", 1>>],
             [bid |-> 1, plat |-> "P2", room |-> NewRoom(0)],
             [bid |-> 1, plat |-> "P3", room |-> MixRoom]>>

\* relay over an existing bridge, peer mode, every adapter registered
Init ==
    /\ mode = "peer" /\ hub = "" /\ reg = Plats
    /\ groups = {1} /\ binds = Bridge1
    /\ InitStore /\ InitProcs /\ InitServing

Evt(id, kind, sub, plat, room, ref, segs) ==
    [id |-> id, kind |-> kind, plat |-> plat, room |-> room, user |-> "u",
     name |-> "n", ref |-> ref, segs |-> segs, sub |-> sub]

Kinds == {<<Msg, "">>, <<Edit, "">>, <<Note, Revoke>>, <<Note, "">>}

\* events of the bridged rooms: any kind from P1, with no ref or as a follow-up
\* "b" to "a"; messages from P2, whose ids can be ids that Send returned
RelayEvents ==
    {Evt(id, Msg, "", "P1", Bridge1[1].room, "", 1) : id \in Ids}
    \cup {Evt("b", k[1], k[2], "P1", Bridge1[1].room, "", 1) : k \in Kinds}
    \cup {Evt("b", k[1], k[2], "P1", Bridge1[1].room, "a", 1) : k \in Kinds}
    \cup {Evt(id, Msg, "", "P2", Bridge1[2].room, "", 1) : id \in Ids}

Next ==
    \/ \E h \in Procs: (\E e \in RelayEvents: HandleValid(h, e))
    \/ \E h \in Procs: HandleFind(h)
    \/ \E h \in Procs: HandleCollect(h)
    \/ \E h \in Procs: \E i \in 1..Cardinality(Plats): Push(h, i, SendResults(targets[h][i].node.plat))
    \/ \E h \in Procs: HandleReturn(h)
    \/ WriterRecv
    \/ WriterTick

Spec == Init /\ [][Next]_vars

\* ------------------------------------------- first ingestion and matching
\* the deployments: peer mode with every adapter, hub mode around the Mix
\* adapter, hub mode with the hub adapter not registered, peer mode with a
\* single adapter
MatchConfigs ==
    {[mode |-> "peer", hub |-> "", reg |-> Plats],
     [mode |-> "hub", hub |-> "P3", reg |-> Plats],
     [mode |-> "hub", hub |-> "P3", reg |-> {"P1", "P2"}],
     [mode |-> "peer", hub |-> "", reg |-> {"P1"}]}

InitMatch ==
    /\ \E c \in MatchConfigs: mode = c.mode /\ hub = c.hub /\ reg = c.reg
    /\ groups = {} /\ binds = << >>
    /\ InitStore /\ InitProcs /\ InitServing

\* first messages of two rooms of P1 and of one room of P2 and of P3
MatchEvents ==
    {Evt("a", Msg, "", "P1", r, "", 1) : r \in SrcRooms}
    \cup {Evt("a", Msg, "", p, <<"r", 1>>, "", 1) : p \in {"P2", "P3"}}

\* Send fails, or succeeds without an id (no mapping to write)
MatchSends == {[err |-> TRUE, nid |-> ""], [err |-> FALSE, nid |-> ""]}

NextMatch ==
    \/ \E h \in Procs: (\E e \in MatchEvents: e.plat \in reg /\ HandleValid(h, e))
    \/ \E h \in Procs: HandleFind(h)
    \/ \E h \in Procs: MatchBegin(h)
    \/ \E h \in Procs: MatchLock(h)
    \/ \E h \in Procs: MatchMake(h)
    \/ \E h \in Procs: MatchAdd(h)
    \/ \E h \in Procs: HandleCollect(h)
    \/ \E h \in Procs: \E i \in 1..Cardinality(Plats): Push(h, i, MatchSends)
    \/ \E h \in Procs: HandleReturn(h)

SpecMatch == InitMatch /\ [][NextMatch]_vars

\* ------------------------------------------------- the store on its own
InitStoreOnly ==
    /\ mode = "peer" /\ hub = "" /\ reg = Plats
    /\ groups = {1} /\ binds = Bridge1
    /\ InitStore /\ InitProcs /\ InitServing

NextStore ==
    \/ \E sm \in Ids, dp \in {"P2", "P3"}, dm \in Ids: StoreMap("P1", sm, dp, dm, 1)
    \/ WriterRecv
    \/ WriterTick
    \/ Tick

SpecStore == InitStoreOnly /\ [][NextStore]_vars

\* --------------------------------------------------- the writer, scheduled
\* the mapping operations of the store specification
MapOps == {MapRow("P1", sm, dp, dm, 1) : sm \in Ids, dp \in {"P2", "P3"}, dm \in Ids}

\* the store with a database that answers every db.Begin; the writer takes a
\* ready case of its select when one stays ready
SpecWriterOk ==
    /\ InitStoreOnly /\ [][NextStore]_vars
    /\ WF_vars(WriterRecv) /\ WF_vars(WriterTick)

\* the same with a database whose db.Begin can fail
NextWriter ==
    \/ NextStore
    \/ WriterTickFail

SpecWriter ==
    /\ InitStoreOnly /\ [][NextWriter]_vars
    /\ WF_vars(WriterRecv) /\ WF_vars(WriterTick)

\* ------------------------------------------------------ the retention purge
NextPurge ==
    \/ \E dm \in Ids: StoreMap("P1", dm, "P2", dm, 1)
    \/ WriterRecv
    \/ WriterTick
    \/ Tick
    \/ Cleaner

SpecPurge == InitStoreOnly /\ [][NextPurge]_vars

\* ---------------------------------------------------- closing the store
\* Store.Map calls made before Close, the writer, and Close
NextClose ==
    \/ \E sm \in Ids, dp \in {"P2", "P3"}, dm \in Ids: life = "run" /\ StoreMap("P1", sm, dp, dm, 1)
    \/ WriterRecv
    \/ WriterTick
    \/ WriterStop
    \/ CloseStop
    \/ CloseDb

SpecClose == InitStoreOnly /\ [][NextClose]_vars

\* ------------------------------------------------- validity of the event
\* a null event, messages without segments from a bridged and from an
\* unbridged room, an edit without segments, and an ordinary message
ValidityEvents ==
    {Evt("a", Msg, "", "P1", r, "", 0) : r \in SrcRooms}
    \cup {Evt("b", Edit, "", "P1", Bridge1[1].room, "a", 0),
          Evt("a", Msg, "", "P1", Bridge1[1].room, "", 1)}

NextValid ==
    \/ \E h \in Procs: HandleNil(h)
    \/ \E h \in Procs: (\E e \in ValidityEvents: HandleValid(h, e))
    \/ \E h \in Procs: HandleFind(h)
    \/ \E h \in Procs: HandleCollect(h)
    \/ \E h \in Procs: \E i \in 1..Cardinality(Plats): Push(h, i, SendResults(targets[h][i].node.plat))
    \/ \E h \in Procs: HandleReturn(h)
    \/ WriterRecv
    \/ WriterTick

SpecValid == Init /\ [][NextValid]_vars

\* ------------------------------------------------- start-up and shutdown
\* the deployments at process start: either mode, any set of adapters
InitCore ==
    /\ \E m \in {"peer", "hub"}: mode = m /\ hub = (IF m = "hub" THEN "P3" ELSE "")
    /\ \E R \in SUBSET Plats: reg = R
    /\ groups = {} /\ binds = << >>
    /\ InitStore /\ InitProcs
    /\ main = "boot"
    /\ dstart = [p \in Plats |-> "none"]
    /\ dstop = [p \in Plats |-> "none"]
    /\ results = << >> /\ successCount = 0 /\ startRet = ""
    /\ rootCtx = "live" /\ stopCtx = "none"
    /\ goQQ = {} /\ mxEvents = << >> /\ recvLog = << >> /\ startLog = << >>
    /\ boots = 0 /\ kept = [maps |-> {}, binds |-> << >>] /\ lost = 0
    /\ InitAux

\* start-up, Store.Map calls of the running engine, the writer, shutdown
NextCore ==
    \/ CoreStartBegin
    \/ \E p \in Plats, err \in BOOLEAN: DrvStart(p, err)
    \/ CoreStartRecv
    \/ CoreStartDone
    \/ main \in {"serving", "cancelled", "stopping"} /\ life = "run" /\ StoreMap("P1", "a", "P2", "a", 1)
    \/ WriterRecv
    \/ WriterTick
    \/ MainSignal
    \/ CoreStopBegin
    \/ \E p \in Plats: DrvStop(p)
    \/ StopExpire
    \/ CoreStopClose
    \/ WriterStop
    \/ CloseDb
    \/ CoreStopReturn

SpecCore == InitCore /\ [][NextCore]_vars

\* the same, with the steps of Core.Stop and of the store's writer taken when
\* they can be; nothing obliges an adapter's Stop to return
SpecCoreLive ==
    /\ InitCore /\ [][NextCore]_vars
    /\ WF_vars(CoreStopClose) /\ WF_vars(WriterStop) /\ WF_vars(CloseDb) /\ WF_vars(CoreStopReturn)

\* ------------------------------------------------------------- fan-out
\* the bridge of scenario 1 with every adapter registered, or with one of the
\* two targets of P1 not registered
InitFan ==
    /\ mode = "peer" /\ hub = ""
    /\ \E R \in {Plats, {"P1", "P2"}, {"P1", "P3"}}: reg = R
    /\ groups = {1} /\ binds = Bridge1
    /\ InitStore /\ InitProcs /\ InitServing

\* a message, an edit of it and a revoke of it from P1, a message from P2
FanEvents ==
    {Evt("a", Msg, "", "P1", Bridge1[1].room, "", 1),
     Evt("b", Edit, "", "P1", Bridge1[1].room, "a", 1),
     Evt("b", Note, Revoke, "P1", Bridge1[1].room, "a", 1),
     Evt("a", Msg, "", "P2", Bridge1[2].room, "", 1)}

NextFan ==
    \/ \E h \in Procs: (\E e \in FanEvents: e.plat \in reg /\ HandleValid(h, e))
    \/ \E h \in Procs: HandleFind(h)
    \/ \E h \in Procs: HandleCollect(h)
    \/ \E h \in Procs: \E i \in 1..Cardinality(Plats): Push(h, i, SendResults(targets[h][i].node.plat))
    \/ \E h \in Procs: HandleReturn(h)
    \/ WriterRecv
    \/ WriterTick

SpecFan == InitFan /\ [][NextFan]_vars

\* --------------------------------------------------------------- restart
\* the process ends (at any point) and is started again on the same database
\* file: NewStore finds the tables (CREATE TABLE IF NOT EXISTS) and their rows;
\* the cache, the locks, the queue, the writer's batch and every call are gone
Restart ==
    /\ boots < MaxBoots
    /\ boots' = boots + 1
    /\ kept' = [maps |-> maps, binds |-> binds]
    /\ cache' = [k \in {} |-> << >>]
    /\ matchLocks' = [k \in {} |-> 0]
    /\ ops' = << >> /\ batch' = << >>
    /\ life' = "run"
    /\ pc' = [h \in Procs |-> "idle"]
    /\ evt' = [h \in Procs |-> NoEvt]
    /\ hist' = [h \in Procs |-> [echo |-> FALSE, due |-> FALSE]]
    /\ hbinds' = [h \in Procs |-> << >>]
    /\ nodes' = [h \in Procs |-> << >>]
    /\ tq' = [h \in Procs |-> << >>]
    /\ made' = [h \in Procs |-> << >>]
    /\ targets' = [h \in Procs |-> << >>]
    /\ refm' = [h \in Procs |-> [p \in {} |-> ""]]
    /\ work' = [h \in Procs |-> << >>]
    /\ UNCHANGED <<cfgVars, dbVars, execd, now, cuts, coreVars, recvVars, lost, auxVars>>

\* peer mode, two adapters, an empty database
InitRestart ==
    /\ mode = "peer" /\ hub = "" /\ reg = {"P1", "P2"}
    /\ groups = {} /\ binds = << >>
    /\ InitStore /\ InitProcs /\ InitServing

\* first messages of one room of P1 and of one room of P2
RestartEvents == {Evt("a", Msg, "", p, <<"r", 1>>, "", 1) : p \in {"P1", "P2"}}

\* Send fails, or succeeds with the id "b"
RestartSends == {[err |-> TRUE, nid |-> ""], [err |-> FALSE, nid |-> "b"]}

NextRestart ==
    \/ \E h \in Procs: (\E e \in RestartEvents: HandleValid(h, e))
    \/ \E h \in Procs: HandleFind(h)
    \/ \E h \in Procs: MatchBegin(h)
    \/ \E h \in Procs: MatchLock(h)
    \/ \E h \in Procs: MatchMake(h)
    \/ \E h \in Procs: MatchAdd(h)
    \/ \E h \in Procs: HandleCollect(h)
    \/ \E h \in Procs: \E i \in 1..Cardinality(Plats): Push(h, i, RestartSends)
    \/ \E h \in Procs: HandleReturn(h)
    \/ WriterRecv
    \/ WriterTick
    \/ Restart

SpecRestart == InitRestart /\ [][NextRestart]_vars

\* ------------------------------------------------------ order of arrival
NextRecv ==
    \/ \E r \in SrcRooms: processMessage(r)
    \/ \E e \in goQQ: handleMsg(e)
    \/ \E r \in SrcRooms: matrixPush(r)
    \/ startServe

SpecRecv == InitStoreOnly /\ [][NextRecv]_vars

\* ------------------------------------------------ events coming back
\* message "a" of P1 has been relayed to P2 as "b" over the bridge of scenario
\* 1; its Store.Map operation is committed, or still in the queue
InitBack ==
    /\ mode = "peer" /\ hub = "" /\ reg = {"P1", "P2"}
    /\ groups = {1} /\ binds = Bridge1
    /\ \/ maps = {} /\ ops = <<MapRow("P1", "a", "P2", "b", 1)>>
       \/ maps = {[sp |-> "P1", sm |-> "a", dp |-> "P2", dm |-> "b", bid |-> 1, ts |-> 0]}
          /\ ops = << >>
    /\ cache = [k \in {} |-> << >>]
    /\ batch = << >> /\ execd = EmptyBag /\ now = 0 /\ life = "run" /\ cuts = {}
    /\ matchLocks = [k \in {} |-> 0]
    /\ InitProcs /\ InitServing

\* what P2 then delivers: the relayed message itself (id "b"), and a reply to
\* it, an edit of it and a revoke of it
BackEvents ==
    {Evt("b", Msg, "", "P2", Bridge1[2].room, "", 1),
     Evt("a", Msg, "", "P2", Bridge1[2].room, "b", 1),
     Evt("a", Edit, "", "P2", Bridge1[2].room, "b", 1),
     Evt("a", Note, Revoke, "P2", Bridge1[2].room, "b", 1)}

\* Send to P1 fails, or returns the new id "b"
BackSends == {[err |-> TRUE, nid |-> ""], [err |-> FALSE, nid |-> "b"]}

NextBack ==
    \/ \E h \in Procs: (\E e \in BackEvents: HandleValid(h, e))
    \/ \E h \in Procs: HandleFind(h)
    \/ \E h \in Procs: HandleCollect(h)
    \/ \E h \in Procs: \E i \in 1..Cardinality(Plats): Push(h, i, BackSends)
    \/ \E h \in Procs: HandleReturn(h)
    \/ WriterRecv
    \/ WriterTick

SpecBack == InitBack /\ [][NextBack]_vars

\* ------------------------------------------- the singleflight router
\* what the steps of this router leave alone, besides the bridge tables
sfRest == <<cfgVars, maps, cache, writerVars, now, life, cuts, matchLocks, procVars, lost,
            coreVars, recvVars, boots, kept, txVars, wsVars>>

\* Store.GetBridge: the group of the room, or nil
GetBridge(plat, room) ==
    IF BindRows(plat, room) = {} THEN Nil
    ELSE LET bid == (CHOOSE b \in BindRows(plat, room): TRUE).bid
         IN [id |-> bid, nodes |-> NodesOf(bid)]

\* an unrecovered panic ends the process
Crashed == \E r \in Procs: rcv[r].st = "panic"

sfKey(e) == Key(e.plat, e.room)

\* MatchAndBridge, lines 141-143: what it returns for an event of the hub in
\* hub mode
hubGuard(e) == [group |-> Nil, err |-> FALSE]

\* Receive, lines 69-103: the echo cache, GetBridge, GetDriver of the source
SfReceive(r, e) ==
    /\ ~Crashed
    /\ rcv[r].st = "idle"
    /\ \A g \in 1..(r-1): rcv[g].st # "idle"
    /\ LET group == GetBridge(e.plat, e.room) IN
       rcv' = [rcv EXCEPT ![r] =
                 IF <<e.plat, e.id>> \in echoCache THEN [NoRecv EXCEPT !.st = "done", !.e = e]
                 ELSE IF group # Nil THEN [NoRecv EXCEPT !.st = "dispatch", !.e = e, !.group = group]
                 ELSE IF e.plat \notin reg THEN [NoRecv EXCEPT !.st = "done", !.e = e]
                 ELSE [NoRecv EXCEPT !.st = "match", !.e = e]]
    /\ UNCHANGED <<sfRest, groups, binds, flights, echoCache, saved>>

\* MatchAndBridge, lines 139-147 and Receive, lines 104-108: the hub guard,
\* then sf.Do joins the call in flight for the room or starts one
SfMatch(r) ==
    /\ ~Crashed
    /\ rcv[r].st = "match"
    /\ LET e == rcv[r].e IN
       IF mode = "hub" /\ e.plat = hub
       THEN /\ rcv' = [rcv EXCEPT ![r] =
                         [@ EXCEPT !.st = IF hubGuard(e).err THEN "done" ELSE "dispatch",
                                   !.group = hubGuard(e).group, !.err = hubGuard(e).err]]
            /\ UNCHANGED flights
       ELSE IF sfKey(e) \in DOMAIN flights
       THEN /\ rcv' = [rcv EXCEPT ![r] = [@ EXCEPT !.st = "wait"]]
            /\ UNCHANGED flights
       ELSE /\ rcv' = [rcv EXCEPT ![r] = [@ EXCEPT !.st = "flight"]]
            /\ flights' = [k \in DOMAIN flights \cup {sfKey(e)} |->
                             IF k = sfKey(e) THEN r ELSE flights[k]]
    /\ UNCHANGED <<sfRest, groups, binds, echoCache, saved>>

\* MatchAndBridge, lines 147-213: the function run by sf.Do (re-check, target
\* platforms, CreateRoom of each, CreateBridge); its result goes to the caller
\* and to every call that joined, and Receive returns on an error
SfFlight(r) ==
    /\ ~Crashed
    /\ rcv[r].st = "flight"
    /\ LET e == rcv[r].e
           found == GetBridge(e.plat, e.room)
           tp == (IF mode = "hub" THEN {hub} ELSE reg \ {e.plat}) \cap reg
           give(res, err) ==
               [x \in Procs |->
                  IF x = r \/ (rcv[x].st = "wait" /\ sfKey(rcv[x].e) = sfKey(e))
                  THEN [rcv[x] EXCEPT !.st = IF err THEN "done" ELSE "dispatch",
                                      !.group = res, !.err = err]
                  ELSE rcv[x]]
       IN /\ flights' = [k \in DOMAIN flights \ {sfKey(e)} |-> flights[k]]
          /\ IF found # Nil
             THEN /\ rcv' = give(found, FALSE)
                  /\ UNCHANGED <<groups, binds>>
             ELSE \E made1 \in SUBSET tp: \E order \in Perms(made1):
                  LET ns == <<[plat |-> e.plat, room |-> e.room]>> \o
                            [i \in 1..Len(order) |->
                               [plat |-> order[i],
                                room |-> IF Route(order[i]) = RouteMix THEN MixRoom ELSE NewRoom(r)]]
                  IN IF Len(ns) < 2 \/ ~AddOk(ns)
                     THEN /\ rcv' = give(Nil, TRUE)
                          /\ UNCHANGED <<groups, binds>>
                     ELSE /\ rcv' = give([id |-> AddId, nodes |-> ns], FALSE)
                          /\ groups' = AddGroups(ns)
                          /\ binds' = AddBinds(ns)
    /\ UNCHANGED <<sfRest, echoCache, saved>>

\* Receive, lines 110-130 with Dispatch, lines 219-258: the loop over
\* group.Nodes (a nil group is a nil pointer dereference), one Send per node of
\* another registered platform, SaveMapping and the echo cache for the ids of
\* a message, wg.Wait
SfDispatch(r) ==
    /\ ~Crashed
    /\ rcv[r].st = "dispatch"
    /\ LET e == rcv[r].e
           g == rcv[r].group
       IN IF g = Nil
          THEN /\ rcv' = [rcv EXCEPT ![r] = [@ EXCEPT !.st = "panic"]]
               /\ UNCHANGED <<echoCache, saved>>
          ELSE LET ts == {n.plat : n \in {x \in SeqToSet(g.nodes): x.plat # e.plat /\ x.plat \in reg}}
               IN \E res \in [ts -> {"", "b"}]:
                  LET got == {p \in ts: res[p] # "" /\ e.type = "message"}
                  IN /\ echoCache' = echoCache \cup {<<p, res[p]>> : p \in got}
                     /\ saved' = saved \cup {<<e.plat, e.id, p, res[p]>> : p \in got}
                     /\ rcv' = [rcv EXCEPT ![r] = [@ EXCEPT !.st = "done"]]
    /\ UNCHANGED <<sfRest, groups, binds, flights>>

\* NewRouter, lines 32-35: an entry of the echo cache expires (TTL 5 minutes)
EchoExpire ==
    /\ ~Crashed
    /\ \E x \in echoCache: echoCache' = echoCache \ {x}
    /\ UNCHANGED <<sfRest, groups, binds, rcv, flights, saved>>

SfEvents ==
    {[plat |-> p, room |-> <<"r", 1>>, id |-> i, type |-> t] :
        p \in {"P1", "P3"}, i \in Ids, t \in {"message", "revoke"}}

\* hub mode with hub P3, or peer mode; no bridge yet
InitSf ==
    /\ \E m \in {"hub", "peer"}: mode = m /\ hub = (IF m = "hub" THEN "P3" ELSE "")
    /\ reg = Plats
    /\ groups = {} /\ binds = << >>
    /\ InitStore /\ InitProcs /\ InitServing

NextSf ==
    \/ \E r \in Procs, e \in SfEvents: SfReceive(r, e)
    \/ \E r \in Procs: SfMatch(r)
    \/ \E r \in Procs: SfFlight(r)
    \/ \E r \in Procs: SfDispatch(r)
    \/ EchoExpire

SpecSf == InitSf /\ [][NextSf]_vars

\* ------------------------------------------------- the OneBot client
\* mu is the set of its holders: a callWS call between Lock and Unlock; the
\* reader locks, writes c.conn and unlocks in one step
wsRest == <<engineVars, coreVars, recvVars, boots, kept, txVars, sfVars>>

\* startWSClient, lines 95-113: Dial succeeds, c.conn is set under mu
WsConnect ==
    /\ rd = "dial" /\ mu = {}
    /\ conn' = conn + 1
    /\ conn < MaxConns
    /\ rd' = "read"
    /\ UNCHANGED <<wsRest, calls, mu>>

\* startWSClient, lines 117-129: ReadMessage fails, c.conn is cleared under mu
WsDrop ==
    /\ rd = "read" /\ mu = {}
    /\ conn' = 0
    /\ rd' = "dial"
    /\ UNCHANGED <<wsRest, calls, mu>>

\* Call, lines 266-274: a fan-out worker's Send or an event handler calls the API
WsCall(c) ==
    /\ calls[c].st = "idle"
    /\ calls' = [calls EXCEPT ![c] = [NoCall EXCEPT !.st = "lock"]]
    /\ UNCHANGED <<wsRest, conn, mu, rd>>

\* callWS, line 286: mu.Lock
WsLock(c) ==
    /\ calls[c].st = "lock" /\ mu = {}
    /\ mu' = {c}
    /\ calls' = [calls EXCEPT ![c] = [@ EXCEPT !.st = "load"]]
    /\ UNCHANGED <<wsRest, conn, rd>>

\* callWS, lines 287-291: conn := c.conn, mu.Unlock, the nil test
WsLoad(c) ==
    /\ calls[c].st = "load"
    /\ mu' = mu \ {c}
    /\ calls' = [calls EXCEPT ![c] =
                   IF conn = 0 THEN [NoCall EXCEPT !.st = "done", !.err = TRUE]
                   ELSE [@ EXCEPT !.st = "send", !.conn = conn]]
    /\ UNCHANGED <<wsRest, conn, rd>>

\* callWS, line 307: conn.WriteJSON begins to write the frame
WsWrite(c) ==
    /\ calls[c].st = "send"
    /\ calls' = [calls EXCEPT ![c] = [@ EXCEPT !.st = "writing"]]
    /\ UNCHANGED <<wsRest, conn, mu, rd>>

\* callWS, lines 307-309: WriteJSON returns, with an error on a connection
\* that is gone
WsWritten(c) ==
    /\ calls[c].st = "writing"
    /\ calls' = [calls EXCEPT ![c] =
                   IF calls[c].conn # conn THEN [@ EXCEPT !.st = "done", !.err = TRUE]
                   ELSE [@ EXCEPT !.st = "wait"]]
    /\ UNCHANGED <<wsRest, conn, mu, rd>>

\* callWS, lines 312-317: the response arrives on resCh, or ctx is done
WsAnswer(c) ==
    /\ calls[c].st = "wait"
    /\ \E e \in BOOLEAN: calls' = [calls EXCEPT ![c] = [@ EXCEPT !.st = "done", !.err = e]]
    /\ UNCHANGED <<wsRest, conn, mu, rd>>

\* Call returns
WsReturn(c) ==
    /\ calls[c].st = "done"
    /\ calls' = [calls EXCEPT ![c] = NoCall]
    /\ UNCHANGED <<wsRest, conn, mu, rd>>

NextWs ==
    \/ WsConnect
    \/ WsDrop
    \/ \E c \in Procs: WsCall(c)
    \/ \E c \in Procs: WsLock(c)
    \/ \E c \in Procs: WsLoad(c)
    \/ \E c \in Procs: WsWrite(c)
    \/ \E c \in Procs: WsWritten(c)
    \/ \E c \in Procs: WsAnswer(c)
    \/ \E c \in Procs: WsReturn(c)

SpecWs == InitStoreOnly /\ [][NextWs]_vars

\* ------------------------------------- Store.Find and Store.Add, in steps
\* Find reading rows of a transaction that has not committed
readRows_Dirty(f) ==
    LET RECURSIVE cat(_)
        cat(S) == IF S = {} THEN << >>
                  ELSE LET a == CHOOSE x \in S: TRUE IN adds[a].rows \o cat(S \ {a})
    IN binds \o cat(Procs)

\* what a db.Query of Find sees: the committed rows (journal mode WAL, the
\* transaction of Add runs on its own connection)
readRows(f) == binds

\* Find, line 301: cache.Load; a hit is returned as it is
FindLoad(f, k) ==
    /\ finds[f].st = "idle"
    /\ finds' = [finds EXCEPT ![f] =
                   IF k \in DOMAIN cache
                   THEN [NoFind EXCEPT !.st = "ret", !.key = k, !.res = cache[k],
                                       !.c0 = Cardinality(groups)]
                   ELSE [NoFind EXCEPT !.st = "bid", !.key = k, !.c0 = Cardinality(groups)]]
    /\ UNCHANGED <<engineVars, txRest, adds, wlock>>

\* Find, lines 306-310: SELECT bind_id; no row returns the empty list
FindBid(f) ==
    /\ finds[f].st = "bid"
    /\ LET rows == {r \in SeqToSet(readRows(f)): Key(r.plat, r.room) = finds[f].key} IN
       finds' = [finds EXCEPT ![f] =
                   IF rows = {} THEN [@ EXCEPT !.st = "ret"]
                   ELSE [@ EXCEPT !.st = "nodes", !.bid = (CHOOSE r \in rows: TRUE).bid]]
    /\ UNCHANGED <<engineVars, txRest, adds, wlock>>

\* Find, lines 317-338: SELECT the nodes of the group
FindNodes(f) ==
    /\ finds[f].st = "nodes"
    /\ LET sel == SelectSeq(readRows(f), LAMBDA r: r.bid = finds[f].bid)
           ns == [i \in 1..Len(sel) |-> [plat |-> sel[i].plat, room |-> sel[i].room]]
       IN finds' = [finds EXCEPT ![f] =
                      [@ EXCEPT !.st = "store", !.res = <<[id |-> finds[f].bid, nodes |-> ns]>>]]
    /\ UNCHANGED <<engineVars, txRest, adds, wlock>>

\* Find, lines 340-341: cache.Store
FindStore(f) ==
    /\ finds[f].st = "store"
    /\ cache' = [k \in DOMAIN cache \cup {finds[f].key} |->
                   IF k = finds[f].key THEN finds[f].res ELSE cache[k]]
    /\ finds' = [finds EXCEPT ![f] = [@ EXCEPT !.st = "ret"]]
    /\ UNCHANGED <<cfgVars, dbVars, writerVars, now, life, cuts, matchLocks, procVars, lost,
                   txRest, adds, wlock>>

\* Find returns
FindReturn(f) ==
    /\ finds[f].st = "ret"
    /\ finds' = [finds EXCEPT ![f] = NoFind]
    /\ UNCHANGED <<engineVars, txRest, adds, wlock>>

\* Add, line 354: db.Begin
AddBegin(a, ns) ==
    /\ adds[a].st = "idle"
    /\ adds' = [adds EXCEPT ![a] = [NoAdd EXCEPT !.st = "group", !.ns = ns]]
    /\ UNCHANGED <<engineVars, txRest, finds, wlock>>

\* Add, lines 361-368: INSERT INTO groups takes the write lock of the database
\* and the next id; with the lock held elsewhere past the timeout it fails
AddGroup(a) ==
    /\ adds[a].st = "group"
    /\ IF wlock = 0
       THEN /\ wlock' = a
            /\ adds' = [adds EXCEPT ![a] = [@ EXCEPT !.st = "bind", !.i = 1, !.bid = AddId]]
       ELSE /\ adds' = [adds EXCEPT ![a] = [NoAdd EXCEPT !.err = TRUE]]
            /\ UNCHANGED wlock
    /\ UNCHANGED <<engineVars, txRest, finds>>

\* Add, lines 371-383: one INSERT INTO binds; on the primary key (plat, room)
\* it fails and the deferred Rollback runs, else cache.Delete of the node's key
AddBind(a) ==
    /\ adds[a].st = "bind"
    /\ adds[a].i <= Len(adds[a].ns)
    /\ LET n == adds[a].ns[adds[a].i]
           k == Key(n.plat, n.room)
           taken == \/ BindRows(n.plat, n.room) # {}
                    \/ \E r \in SeqToSet(adds[a].rows): Key(r.plat, r.room) = k
       IN IF taken
          THEN /\ adds' = [adds EXCEPT ![a] = [NoAdd EXCEPT !.err = TRUE]]
               /\ wlock' = 0
               /\ UNCHANGED cache
          ELSE /\ adds' = [adds EXCEPT ![a] =
                             [@ EXCEPT !.i = @ + 1,
                                       !.rows = Append(@, [bid |-> adds[a].bid, plat |-> n.plat, room |-> n.room])]]
               /\ cache' = [x \in DOMAIN cache \ {k} |-> cache[x]]
               /\ UNCHANGED wlock
    /\ UNCHANGED <<cfgVars, dbVars, writerVars, now, life, cuts, matchLocks, procVars, lost,
                   txRest, finds>>

\* Add, lines 385-388: tx.Commit makes the rows visible at once
AddCommit(a) ==
    /\ adds[a].st = "bind"
    /\ adds[a].i > Len(adds[a].ns)
    /\ groups' = AddGroups(adds[a].ns)
    /\ binds' = AddBinds(adds[a].ns)
    /\ wlock' = 0
    /\ adds' = [adds EXCEPT ![a] = NoAdd]
    /\ UNCHANGED <<cfgVars, maps, cache, writerVars, now, life, cuts, matchLocks, procVars, lost,
                   txRest, finds>>

\* Add, lines 385-387: tx.Commit fails, the deferred Rollback runs
AddCommitFail(a) ==
    /\ adds[a].st = "bind"
    /\ adds[a].i > Len(adds[a].ns)
    /\ wlock' = 0
    /\ adds' = [adds EXCEPT ![a] = [NoAdd EXCEPT !.err = TRUE]]
    /\ UNCHANGED <<engineVars, txRest, finds>>

\* the rooms the calls are about
FindKeys == {Key("P1", <<"r", 1>>), Key("P2", <<"r", 1>>), Key("P1", <<"r", 2>>)}
AddInputs ==
    LET n(p, i) == [plat |-> p, room |-> <<"r", i>>]
    IN {<<n("P1", 1), n("P2", 1)>>, <<n("P1", 2), n("P2", 1)>>,
        <<n("P2", 1), n("P1", 1)>>, <<n("P1", 2), n("P1", 2)>>}

\* an empty database
InitFind ==
    /\ mode = "peer" /\ hub = "" /\ reg = Plats
    /\ groups = {} /\ binds = << >>
    /\ InitStore /\ InitProcs /\ InitServing

NextFind ==
    \/ \E f \in Procs, k \in FindKeys: FindLoad(f, k)
    \/ \E f \in Procs: FindBid(f)
    \/ \E f \in Procs: FindNodes(f)
    \/ \E f \in Procs: FindStore(f)
    \/ \E f \in Procs: FindReturn(f)
    \/ \E a \in Procs, ns \in AddInputs: AddBegin(a, ns)
    \/ \E a \in Procs: AddGroup(a)
    \/ \E a \in Procs: AddBind(a)
    \/ \E a \in Procs: AddCommit(a)
    \/ \E a \in Procs: AddCommitFail(a)

SpecFind == InitFind /\ [][NextFind]_vars

\* ================================================================ claims
Started == {h \in Procs: pc[h] # "idle"}
TPlat(h, i) == targets[h][i].node.plat

\* every (group id, platform, room) the store persists, caches or has handed out
KnownNodes ==
    {<<b.bid, b.plat, b.room>> : b \in SeqToSet(binds)}
    \cup UNION {{<<g.id, n.plat, n.room>> : n \in SeqToSet(g.nodes)} :
                  g \in UNION ({SeqToSet(cache[k]) : k \in DOMAIN cache}
                               \cup {SeqToSet(hbinds[h]) : h \in Procs})}

\* C1: after any interleaving of Handle calls and bridge creations, every
\* (platform, room) pair is a node of at most one BridgeGroup: binds holds at
\* most one row for it, and every group the store caches or returns that
\* contains the pair has that row's id.
C1_Thm ==
    /\ \A i, j \in DOMAIN binds:
          (binds[i].plat = binds[j].plat /\ binds[i].room = binds[j].room) => i = j
    /\ \A x, y \in KnownNodes: (x[2] = y[2] /\ x[3] = y[3]) => x[1] = y[1]

\* a bridge exists and Store.Add has refused a later one that shares a node
C1_Wit ==
    /\ groups # {}
    /\ \E h \in Procs:
          /\ pc[h] = "done" /\ Len(nodes[h]) >= 2 /\ tq[h] = << >> /\ hbinds[h] = << >>
          /\ \E i \in DOMAIN nodes[h]: BindRows(nodes[h][i].plat, nodes[h][i].room) # {}

\* the Handle calls made so far for source room k
Calls(k) == {h \in Started: Key(evt[h].plat, evt[h].room) = k}
MakeCalls(S) == UNION {{<<h, i>> : i \in DOMAIN made[h]} : h \in S}

\* C2 (as claimed): when the N Handle calls for one unbridged source room have
\* returned and every CreateRoom they made succeeded with a room, exactly one
\* BridgeGroup holds the room, each target adapter's CreateRoom was called
\* exactly once, and every call sent its event to the same target rooms.
C2_Claim ==
    \A k \in {Key(evt[h].plat, evt[h].room) : h \in Started}:
        LET S == Calls(k)
            mk == MakeCalls(S)
        IN (/\ \A h \in S: pc[h] = "done"
            /\ mk # {}
            /\ \A m \in mk: ~made[m[1]][m[2]].err /\ made[m[1]][m[2]].room # NoRoom)
           => /\ Cardinality({b.bid : b \in BindRows(k[1], k[2])}) = 1
              /\ \A p \in getTargetPlatforms(k[1]):
                    Cardinality({m \in mk: made[m[1]][m[2]].plat = p}) = 1
              /\ \A h \in S: targets[h] # << >> /\ \A i \in DOMAIN work[h]: Sent(h, i)
              /\ \A g, h \in S: targets[g] = targets[h]

\* the same statement for calls whose CreateRoom calls all went to Mirror
\* adapters (each returning a room of its own): it holds of the lock and the
\* re-check in Match
C2_MirrorOnly ==
    \A k \in {Key(evt[h].plat, evt[h].room) : h \in Started}:
        LET S == Calls(k)
            mk == MakeCalls(S)
        IN (/\ \A h \in S: pc[h] = "done"
            /\ mk # {}
            /\ \A m \in mk: /\ ~made[m[1]][m[2]].err /\ made[m[1]][m[2]].room # NoRoom
                             /\ Route(made[m[1]][m[2]].plat) = RouteMirror)
           => /\ Cardinality({b.bid : b \in BindRows(k[1], k[2])}) = 1
              /\ \A p \in {made[m[1]][m[2]].plat : m \in mk}:
                    Cardinality({m \in mk: made[m[1]][m[2]].plat = p}) = 1
              /\ \A h \in S: targets[h] # << >> /\ \A i \in DOMAIN work[h]: Sent(h, i)
              /\ \A g, h \in S: targets[g] = targets[h]

\* C3: a Handle call whose event was an echo when it was checked
\* (Store.Echo(e.platform, e.id) true) ends at once: no Send, no bridge
\* lookup or matching, no CreateRoom.
C3_Thm ==
    \A h \in Procs: hist[h].echo =>
        /\ pc[h] = "done"
        /\ work[h] = << >> /\ targets[h] = << >>
        /\ made[h] = << >> /\ nodes[h] = << >> /\ hbinds[h] = << >>

\* an id that a Send returned came back as an inbound event and was dropped
C3_Wit == \E h \in Procs: hist[h].echo /\ hist[h].due /\ pc[h] = "done"

\* C4 (as claimed): an inbound event from Q whose id a successful Send to Q
\* returned earlier causes no Send, however soon it arrives.
C4_Claim ==
    \A h \in Procs: hist[h].due => \A i \in DOMAIN work[h]: ~Sent(h, i)

\* C5 (as claimed): once Handle has returned, every Message it relayed to Q
\* with a non-empty dstId has FindMapping(P, e.id, Q) = dstId and
\* IsEcho(Q, dstId).
C5_Claim ==
    \A h \in Procs: pc[h] = "done" =>
        \A i \in DOMAIN work[h]:
            (work[h][i].st = "sent" /\ work[h][i].out.kind = Msg /\ work[h][i].nid # "")
            => /\ SeekFound(evt[h].plat, evt[h].id, TPlat(h, i))
               /\ Seek(evt[h].plat, evt[h].id, TPlat(h, i)) = work[h][i].nid
               /\ Echo(TPlat(h, i), work[h][i].nid)

\* the worker for target i of call h has run
Ran(h, i) == work[h][i].st # "todo"

\* C6: a Message with ref = R and no mapping of R for the target platform is
\* still sent there (Send is called), with ref cleared and id, kind, content
\* and subtype kept.
C6_Thm ==
    \A h \in Procs: \A i \in DOMAIN work[h]:
        (/\ Ran(h, i) /\ evt[h].kind = Msg /\ evt[h].ref # ""
         /\ ~SeekFound(evt[h].plat, evt[h].ref, TPlat(h, i)))
        => /\ Sent(h, i)
           /\ work[h][i].out.ref = ""
           /\ work[h][i].out.id = evt[h].id
           /\ work[h][i].out.kind = evt[h].kind
           /\ work[h][i].out.segs = evt[h].segs
           /\ work[h][i].out.sub = evt[h].sub

\* a reply went out with its ref cleared while another target got it translated
C6_Wit ==
    \E h \in Procs: \E i, j \in DOMAIN work[h]:
        /\ evt[h].kind = Msg /\ evt[h].ref # ""
        /\ ~SeekFound(evt[h].plat, evt[h].ref, TPlat(h, i))
        /\ work[h][i].st = "sent" /\ work[h][i].out.ref = ""
        /\ work[h][j].st = "sent" /\ work[h][j].out.ref # ""

\* C7: an Edit or Notice+Revoke is sent to a target only if its ref is not
\* empty and has a mapping for that target's platform; a target whose mapping
\* was found when the references were resolved does get its Send.
C7_Thm ==
    \A h \in Procs: \A i \in DOMAIN work[h]:
        (Ran(h, i) /\ isCriticalOp(evt[h])) =>
            /\ Sent(h, i) => (evt[h].ref # "" /\ SeekFound(evt[h].plat, evt[h].ref, TPlat(h, i)))
            /\ TPlat(h, i) \in DOMAIN refm[h] => Sent(h, i)

\* an edit or revoke was dropped for one target and sent to another
C7_Wit ==
    \E h \in Procs: \E i, j \in DOMAIN work[h]:
        /\ isCriticalOp(evt[h])
        /\ work[h][i].st = "drop" /\ ~SeekFound(evt[h].plat, evt[h].ref, TPlat(h, i))
        /\ Sent(h, j)

\* C8: when the ref of an event needs translation and a mapping exists for a
\* target, the event sent to that target carries
\* FindMapping(srcPlatform, ref, thatTargetPlatform) as its ref.
C8_Thm ==
    \A h \in Procs: \A i \in DOMAIN work[h]:
        (/\ Sent(h, i) /\ needRefConvert(evt[h]) /\ evt[h].ref # ""
         /\ (work[h][i].out.ref # "" \/ TPlat(h, i) \in DOMAIN refm[h]))
        => /\ SeekFound(evt[h].plat, evt[h].ref, TPlat(h, i))
           /\ work[h][i].out.ref = Seek(evt[h].plat, evt[h].ref, TPlat(h, i))

\* two targets received different translated refs, one differing from the source ref
C8_Wit ==
    \E h \in Procs: \E i, j \in DOMAIN work[h]:
        /\ Sent(h, i) /\ Sent(h, j) /\ evt[h].ref # ""
        /\ work[h][i].out.ref # "" /\ work[h][j].out.ref # ""
        /\ work[h][i].out.ref # work[h][j].out.ref
        /\ work[h][i].out.ref # evt[h].ref

\* the mapping tuples queued, batched or committed
Issued ==
    {Tuple4(r) : r \in maps} \cup {Tuple4(o) : o \in SeqToSet(ops)}
    \cup {Tuple4(o) : o \in SeqToSet(batch)}

\* C9: every mapping write queued, batched or committed stems from a
\* successful Send of a Message event that returned a non-empty id, and
\* carries that Send's source id, target platform and returned id; no other
\* Send adds to the mapping table.
C9_Thm ==
    \A q \in Issued:
        \E h \in Procs: \E i \in DOMAIN work[h]:
            /\ work[h][i].st = "sent" /\ work[h][i].out.kind = Msg /\ work[h][i].nid # ""
            /\ q = <<evt[h].plat, evt[h].id, TPlat(h, i), work[h][i].nid>>

\* a Send of an Edit or Notice returned an id, one Send failed, and nothing was written
C9_Wit ==
    \E h \in Procs: \E i, j \in DOMAIN work[h]:
        /\ work[h][i].st = "sent" /\ work[h][i].out.kind # Msg /\ work[h][i].nid # ""
        /\ work[h][j].st = "fail"
        /\ pc[h] = "done" /\ Issued = {}

\* the tuples the writer executes in this step
Applied == execd' (-) execd

\* C10: executing SaveMapping for a (srcPlatform, srcMsg, dstPlatform, dstMsg)
\* tuple that already has a row leaves that row as the only row of the tuple,
\* and a batch of such tuples alone leaves the whole table unchanged.
C10_Thm ==
    [][/\ \A r \in maps: BagIn(Tuple4(r), Applied) =>
              {x \in maps': Tuple4(x) = Tuple4(r)} = {r}
       /\ (\A q \in BagToSet(Applied): \E r \in maps: Tuple4(r) = q) => maps' = maps
      ]_vars

\* the same tuple was executed twice, at different times, and has one row
C10_Wit ==
    \E q \in BagToSet(execd):
        /\ CopiesIn(q, execd) >= 2
        /\ Cardinality({r \in maps: Tuple4(r) = q}) = 1
        /\ \E r \in maps: Tuple4(r) = q /\ r.ts < now

C12_Claim ==
    \A h \in Procs:
        (pc[h] # "idle" /\ (evt[h] = Nil \/ isEmptyMsg(evt[h]))) =>
            /\ pc[h] = "done"
            /\ work[h] = << >> /\ targets[h] = << >>
            /\ made[h] = << >> /\ nodes[h] = << >> /\ hbinds[h] = << >>

\* the part of C12 about a Message without segments, which the code keeps
C12_EmptyMsg ==
    \A h \in Procs:
        (pc[h] # "idle" /\ evt[h] # Nil /\ isEmptyMsg(evt[h])) =>
            /\ pc[h] = "done"
            /\ work[h] = << >> /\ targets[h] = << >>
            /\ made[h] = << >> /\ nodes[h] = << >> /\ hbinds[h] = << >>

\* C13: in hub mode, a Handle call for an event of the hub platform whose room
\* has no bridge takes no room lock, calls no CreateRoom, writes no bridge and
\* sends nothing.
C13_Thm ==
    \A h \in Procs:
        (/\ mode = "hub" /\ pc[h] \notin {"idle", "find"}
         /\ evt[h].plat = hub /\ hbinds[h] = << >>)
        => /\ pc[h] \in {"match", "collect", "done"}
           /\ Key(evt[h].plat, evt[h].room) \notin DOMAIN matchLocks
           /\ made[h] = << >> /\ nodes[h] = << >>
           /\ BindRows(evt[h].plat, evt[h].room) = {}
           /\ \A b \in SeqToSet(binds): b.bid \notin {g \in groups: NodesOf(g)[1].plat = hub}
           /\ targets[h] = << >> /\ work[h] = << >>

\* a hub event has been handled to the end while a spoke room got its bridge
C13_Wit ==
    \E h \in Procs:
        /\ mode = "hub" /\ evt[h].plat = hub /\ pc[h] = "done" /\ hbinds[h] = << >>
        /\ groups # {}

\* the groups persisted, as Store.Find would build them
Persisted == {[id |-> g, nodes |-> NodesOf(g)] : g \in groups}

\* C14: every BridgeGroup persisted by Match, and every group a Handle call
\* holds, has at least two nodes, and no two of its nodes share a platform.
C14_Thm ==
    \A g \in Persisted \cup UNION {SeqToSet(hbinds[h]) : h \in Procs}:
        /\ Len(g.nodes) >= 2
        /\ \A i, j \in DOMAIN g.nodes: g.nodes[i].plat = g.nodes[j].plat => i = j

\* a group of three platforms and a group of two (one target failed) are persisted
C14_Wit ==
    \E g1, g2 \in Persisted: Len(g1.nodes) = 3 /\ Len(g2.nodes) = 2

\* the Match of call h has met a hub that is not registered or whose
\* CreateRoom failed
HubFailed(h) ==
    /\ mode = "hub" /\ nodes[h] # << >> /\ tq[h] = << >>
    /\ hub \notin reg \/ \E i \in DOMAIN made[h]: made[h][i].err

\* C15: in hub mode, when the hub adapter is not registered or its CreateRoom
\* returns an error, the match aborts: Handle has returned, the call holds no
\* group and persisted none (a group of its source room is another call's),
\* not even a partial one, its room lock is free again, and it sent nothing.
C15_Thm ==
    \A h \in Procs: HubFailed(h) =>
        /\ pc[h] = "done"
        /\ hbinds[h] = << >> /\ targets[h] = << >> /\ work[h] = << >>
        /\ Len(nodes[h]) = 1
        /\ matchLocks[Key(evt[h].plat, evt[h].room)] # h
        /\ \A g \in Persisted: g.nodes[1] = nodes[h][1] =>
              \E h2 \in Procs \ {h}: nodes[h2] = g.nodes /\ hbinds[h2] # << >>
        /\ \A g \in Persisted: Len(g.nodes) = 2

\* the hub's CreateRoom failed for one call and succeeded for a later call of
\* the same room, which got its bridge
C15_Wit ==
    \E h, h2 \in Procs:
        /\ HubFailed(h) /\ made[h] # << >> /\ pc[h] = "done"
        /\ h2 # h /\ evt[h2].room = evt[h].room /\ evt[h2].plat = evt[h].plat
        /\ hbinds[h2] # << >> /\ pc[h2] = "done"

\* the Match of call h persisted a group of its own
Matched(h) ==
    /\ nodes[h] # << >> /\ tq[h] = << >> /\ hbinds[h] # << >>
    /\ pc[h] \in {"collect", "fan", "done"}

\* the platforms whose CreateRoom succeeded in the Match of call h
MadeOk(h) == {made[h][i].plat : i \in {j \in DOMAIN made[h]: ~made[h][j].err}}

\* C16: in peer mode a successful match persists a group whose first node is
\* the source and whose other nodes are one per registered platform other
\* than the source whose CreateRoom succeeded, with the room it returned; a
\* failed target does not end the match: every registered target is tried.
C16_Thm ==
    \A h \in Procs: mode = "peer" =>
        /\ Matched(h) =>
              LET g == hbinds[h][1] IN
              /\ g \in Persisted /\ g.nodes = nodes[h]
              /\ g.nodes[1] = [plat |-> evt[h].plat, room |-> evt[h].room]
              /\ {g.nodes[i].plat : i \in 2..Len(g.nodes)} = MadeOk(h)
              /\ Len(g.nodes) = 1 + Cardinality(MadeOk(h))
              /\ MadeOk(h) \subseteq reg \ {evt[h].plat}
              /\ \A i \in 2..Len(g.nodes): \E j \in DOMAIN made[h]:
                    /\ ~made[h][j].err /\ made[h][j].plat = g.nodes[i].plat
                    /\ made[h][j].room = g.nodes[i].room
        /\ (nodes[h] # << >> /\ pc[h] \notin {"make"}) =>
              /\ tq[h] = << >>
              /\ {made[h][i].plat : i \in DOMAIN made[h]} = reg \ {evt[h].plat}
              /\ Len(made[h]) = Cardinality(reg \ {evt[h].plat})

\* one target's CreateRoom failed and the bridge was made of the source and
\* the other target
C16_Wit ==
    \E h \in Procs:
        /\ mode = "peer" /\ Matched(h) /\ Len(hbinds[h][1].nodes) = 2
        /\ made[h][1].err /\ ~made[h][2].err

\* the Match of call h found no target platform, or every CreateRoom it
\* called failed
NoTarget(h) ==
    /\ pc[h] \notin {"idle", "find", "match", "lock", "make"}
    /\ \/ mode = "peer" /\ reg = {evt[h].plat} /\ hbinds[h] = << >>
       \/ /\ nodes[h] # << >> /\ tq[h] = << >> /\ made[h] # << >>
          /\ \A i \in DOMAIN made[h]: made[h][i].err

\* C17: with a single registered adapter in peer mode, or when every target's
\* CreateRoom fails, the match ends in an error: the call gets no group and
\* never reaches the fan-out, it persists nothing (a bridge of its source room
\* is another call's), and once it has returned its room lock is free.
C17_Thm ==
    \A h \in Procs: NoTarget(h) =>
        /\ pc[h] \in {"add", "done"}
        /\ hbinds[h] = << >> /\ targets[h] = << >> /\ work[h] = << >>
        /\ Len(nodes[h]) <= 1
        /\ \A g \in Persisted:
              g.nodes[1] = [plat |-> evt[h].plat, room |-> evt[h].room] =>
              \E h2 \in Procs \ {h}: nodes[h2] = g.nodes /\ hbinds[h2] # << >>
        /\ pc[h] = "done" =>
              \A k \in DOMAIN matchLocks: matchLocks[k] # h

\* in peer mode both targets' CreateRoom failed and Handle has returned
C17_Wit ==
    \E h \in Procs:
        /\ mode = "peer" /\ NoTarget(h) /\ Len(made[h]) = 2 /\ pc[h] = "done"
        /\ groups = {}

\* C18 (as claimed): a target whose CreateRoom returned an empty room id
\* without an error is skipped: no persisted BridgeGroup has a node with an
\* empty room.
C18_Claim ==
    \A g \in Persisted: \A i \in DOMAIN g.nodes: g.nodes[i].room # NoRoom

\* the Handle calls whose Match got the shared room from a Mix adapter and no
\* error from any adapter
MixMade(h) ==
    /\ made[h] # << >> /\ tq[h] = << >> /\ pc[h] = "done"
    /\ \A i \in DOMAIN made[h]: ~made[h][i].err /\ made[h][i].room # NoRoom
    /\ \E i \in DOMAIN made[h]: Route(made[h][i].plat) = RouteMix

\* C19 (as claimed): every source room whose first event was matched against a
\* Mix adapter has a BridgeGroup made of its own node and the adapter's shared
\* room, so that two source rooms share that room.
C19_Claim ==
    \A h \in Procs: MixMade(h) =>
        \E g \in Persisted:
            /\ g.nodes[1] = [plat |-> evt[h].plat, room |-> evt[h].room]
            /\ \E i \in DOMAIN g.nodes:
                  Route(g.nodes[i].plat) = RouteMix /\ g.nodes[i].room = MixRoom

\* C20 (as claimed): when the database is closed, every operation that was
\* accepted into the queue before Close has been executed and committed:
\* none is left in the queue or in the writer's batch.
C20_Claim == life = "closed" => (ops = << >> /\ batch = << >>)

\* the part of C20 the code keeps: the operations the writer had already
\* received are committed before the database is closed
C20_Batch == life \in {"exited", "closed"} => batch = << >>

\* the cut-offs of the purges the writer has executed
PurgesDone == {e \in cuts: BagIn(<<"purge", e>>, execd)}

\* C21 (as claimed): once the purger has run at time T and the writer has
\* nothing left to execute, no mapping row with ts < T - retention remains.
C21_Claim ==
    (ops = << >> /\ batch = << >>) =>
        \A e \in cuts: \A r \in maps: ~(r.ts < e)

\* the part of C21 the code keeps: once the writer has executed the DELETE
\* of a purger run at time T, no row with ts < T - retention remains
C21_Executed == \A e \in PurgesDone: \A r \in maps: ~(r.ts < e)

\* call h runs Store.Add in this step
Adds(h) == pc[h] = "add" /\ pc'[h] # "add" /\ ~tooFewNodes(nodes[h])

\* C22: Store.Add is all-or-nothing.  When it returns an error, groups and
\* binds are as before; when it succeeds, the earlier rows are unchanged and
\* every node is a binds row under one new group id.
C22_Thm ==
    [][\A h \in Procs: Adds(h) =>
          IF hbinds'[h] = << >>
          THEN groups' = groups /\ binds' = binds
          ELSE LET g == hbinds'[h][1] IN
               /\ g.id \notin groups /\ groups' = groups \cup {g.id}
               /\ Len(binds') = Len(binds) + Len(nodes[h])
               /\ SubSeq(binds', 1, Len(binds)) = binds
               /\ \A i \in DOMAIN nodes[h]:
                     binds'[Len(binds) + i] =
                        [bid |-> g.id, plat |-> nodes[h][i].plat, room |-> nodes[h][i].room]
      ]_vars

\* an Add failed on its second node, after its source node had been inserted,
\* and neither that source node nor a second group is in the database
C22_Wit ==
    \E h \in Procs:
        /\ pc[h] = "done" /\ tq[h] = << >> /\ hbinds[h] = << >>
        /\ Len(nodes[h]) >= 2 /\ AddConflict(nodes[h]) >= 2
        /\ BindRows(nodes[h][1].plat, nodes[h][1].room) = {}
        /\ Cardinality(groups) = 1

\* Core.Start has returned an error
StartErr == startRet \in {"nodrivers", "hub", "noactive"}
HubStartFailed == mode = "hub" /\ hub \in reg /\ dstart[hub] = "err"
AllStartsDone == \A p \in reg: dstart[p] \in {"ok", "err"}

\* C23: Core.Start returns nil only when every adapter's Start has returned,
\* the hub's Start (hub mode) did not fail and at least one Start succeeded; it
\* returns an error only when the hub's Start failed or no Start succeeded
\* (none registered included), never for the failure of a non-hub adapter alone.
C23_Thm ==
    /\ startRet = "nil" =>
          AllStartsDone /\ ~HubStartFailed /\ (\E p \in reg: dstart[p] = "ok")
    /\ StartErr =>
          HubStartFailed \/ (AllStartsDone /\ \A p \in reg: dstart[p] # "ok")

\* Start returned nil in hub mode although an adapter other than the hub failed
C23_Wit ==
    /\ startRet = "nil" /\ mode = "hub" /\ hub \in reg
    /\ \E p \in reg: dstart[p] = "err"

\* C24: when the database is closed, the root context has been cancelled, every
\* adapter's Stop has returned and the pending store writes have been executed.
C24_Claim ==
    life = "closed" =>
        /\ rootCtx = "cancelled"
        /\ stopsReturned
        /\ ops = << >> /\ batch = << >>

\* the order alone: Store.Close begins only after the cancel and after every
\* Stop has returned, and the database is closed only after the writer's exit
C24_Order ==
    life # "run" => (rootCtx = "cancelled" /\ main \in {"stopping", "stopped"} /\ stopsReturned)

\* C25: once the deadline of the stop context has passed, Core.Stop returns.
C25_Claim == (stopCtx = "expired") ~> (main = "stopped")

\* Core.Stop does not return while an adapter's Stop is running
C25_Waits == main = "stopped" => stopsReturned

\* position of event e in the sequence of Handle calls (0 = not begun)
StartPos(e) == IF \E i \in DOMAIN startLog: startLog[i] = e
               THEN CHOOSE i \in DOMAIN startLog: startLog[i] = e ELSE 0

\* events of adapter p and one room are handed to Handle in the order received
InOrder(p) ==
    \A i, j \in DOMAIN recvLog:
        (i < j /\ recvLog[i].plat = p /\ recvLog[j].plat = p
               /\ recvLog[i].room = recvLog[j].room /\ StartPos(recvLog[j]) > 0)
        => (StartPos(recvLog[i]) > 0 /\ StartPos(recvLog[i]) < StartPos(recvLog[j]))

\* C26: for each source room, Handle begins for the events in the order in
\* which the adapter received them.
C26_Claim == \A p \in Plats: InOrder(p)

\* the Matrix adapter, with its single event goroutine, keeps the order
C26_Matrix == InOrder(MatrixPlat)

Relayed(h) ==
    /\ pc[h] = "done" /\ evt[h] # Nil /\ ~isEmptyMsg(evt[h]) /\ ~hist[h].echo
    /\ BindRows(evt[h].plat, evt[h].room) # {}

\* the nodes of the bridge of call h's room
BridgeNodes(h) ==
    SeqToSet(NodesOf((CHOOSE r \in BindRows(evt[h].plat, evt[h].room): TRUE).bid))

\* the nodes the claim names: another platform, adapter registered
Eligible(h) == {n \in BridgeNodes(h): n.plat # evt[h].plat /\ n.plat \in reg}

\* the workers of call h for node n
WorkersFor(h, n) == {i \in DOMAIN targets[h]: targets[h][i].node = n}

\* Fix refused the event for target i of call h: an edit or a revoke whose ref
\* is empty or has no mapping for the target's platform
Refused(h, i) ==
    /\ work[h][i].st = "drop" /\ isCriticalOp(evt[h])
    /\ (evt[h].ref = "" \/ TPlat(h, i) \notin DOMAIN refm[h])

\* C28 as stated: Send is invoked exactly once for every node of the bridge
\* on another platform with a registered adapter, and for no other node.
C28_Claim ==
    \A h \in Procs: Relayed(h) =>
        /\ \A n \in Eligible(h):
              Cardinality({i \in WorkersFor(h, n): Sent(h, i)}) = 1
        /\ \A i \in DOMAIN targets[h]: Sent(h, i) => targets[h][i].node \in Eligible(h)

\* C28 amended: every such node has exactly one worker and no other node has
\* one; the worker invokes Send once, unless the event is an edit or a revoke
\* that Fix refuses for that target, and then Send is not invoked for it.
C28_Thm ==
    \A h \in Procs: Relayed(h) =>
        /\ \A n \in Eligible(h):
              /\ Cardinality(WorkersFor(h, n)) = 1
              /\ \A i \in WorkersFor(h, n): Sent(h, i) \/ Refused(h, i)
        /\ \A i \in DOMAIN targets[h]: targets[h][i].node \in Eligible(h)

\* a call from P1 has returned with P3 not registered: Send was invoked for
\* the node of P2 alone
C28_Wit ==
    \E h \in Procs:
        /\ Relayed(h) /\ reg = {"P1", "P2"} /\ evt[h].plat = "P1"
        /\ \E i \in DOMAIN targets[h]: Sent(h, i) /\ TPlat(h, i) = "P2"

\* C29: when Handle has returned, the worker of every target of the event has
\* ended: none is still to run its Fix, Send and Store.Map.
C29_Thm ==
    \A h \in Procs: pc[h] = "done" =>
        \A i \in DOMAIN work[h]: work[h][i].st # "todo"

\* a call with two targets has returned, one Send failed and one succeeded
C29_Wit ==
    \E h \in Procs:
        /\ pc[h] = "done" /\ Len(work[h]) = 2
        /\ \E i, j \in DOMAIN work[h]: work[h][i].st = "fail" /\ work[h][j].st = "sent"

\* the Match of call h made its attempt and ended without a bridge
MatchFailed(h) ==
    /\ pc[h] = "done" /\ nodes[h] # << >> /\ tq[h] = << >> /\ hbinds[h] = << >>

\* call h takes the room lock for a room without a bridge, with target
\* platforms to try
Retries(h) ==
    /\ pc[h] = "lock" /\ pc'[h] # "lock"
    /\ BindRows(evt[h].plat, evt[h].room) = {}
    /\ getTargetPlatforms(evt[h].plat) # {}

InCritical(h) == pc[h] \in {"make", "add"}
RoomOf(h) == Key(evt[h].plat, evt[h].room)

\* C31: no two calls for one source (platform, room) are between the re-check
\* under the lock and the persist; and a call waiting for its room lock finds
\* it free whenever no call for the same room is in that section, whatever
\* the calls for other rooms are doing.
C31_Thm ==
    /\ \A h, g \in Procs: (h # g /\ InCritical(h) /\ InCritical(g)) => RoomOf(h) # RoomOf(g)
    /\ \A h \in Procs:
          (pc[h] = "lock" /\ \A g \in Procs \ {h}: ~(InCritical(g) /\ RoomOf(g) = RoomOf(h)))
          => lockFree(RoomOf(h))

\* a call waits for the lock of its room while another call for the same
\* room is creating the bridge
C31_Wit ==
    \E h, g \in Procs:
        /\ h # g /\ RoomOf(h) = RoomOf(g)
        /\ pc[h] = "lock" /\ pc[g] = "make" /\ ~lockFree(RoomOf(h))

\* two calls for different rooms are creating their bridges at the same time
C31_Apart ==
    \E h, g \in Procs: InCritical(h) /\ InCritical(g) /\ RoomOf(h) # RoomOf(g)

\* C32: a Store.Map call made while the queue holds its full capacity returns
\* in its own step with the write discarded: the queue, the writer's batch and
\* the maps table are as before; the queue never exceeds its capacity.
C32_Thm ==
    [][/\ Len(ops') <= QueueCap
       /\ lost' # lost =>
             /\ Len(ops) = QueueCap
             /\ ops' = ops /\ batch' = batch /\ maps' = maps /\ execd' = execd
      ]_vars

\* a Store.Map call has been discarded and the queue is still full
C32_Wit == lost > 0 /\ Len(ops) = QueueCap

\* C33: every operation accepted into the queue is eventually executed by the
\* writer, with no further Store.Map call needed.
C33_Claim ==
    \A o \in MapOps:
        (o \in SeqToSet(ops) \cup SeqToSet(batch)) ~> BagIn(Tuple4(o), execd)

\* the batch stays below the size that forces a commit, and the operations
\* executed in a step are those that leave the writer's hands in that step
C33_Batch ==
    [][/\ Len(batch') < BatchMax
       /\ Applied # EmptyBag =>
             /\ batch' = << >>
             /\ BagCardinality(Applied) = Len(batch) + (IF ops' # ops THEN 1 ELSE 0)
      ]_vars

\* the committed bridge that contains the room of key k, as a Find result
Committed(k) ==
    IF BindRows(k[1], k[2]) = {} THEN << >>
    ELSE LET bid == (CHOOSE r \in BindRows(k[1], k[2]): TRUE).bid
         IN <<[id |-> bid, nodes |-> NodesOf(bid)]>>

SentBy(h) == {work[h][i].out : i \in {j \in DOMAIN work[h]: work[h][j].st = "sent"}}

\* C35: the event passed to a target's Send equals the source event in every
\* field but ref, the sender's display name included.
C35_Claim ==
    \A h \in Procs: \A out \in SentBy(h):
        [out EXCEPT !.ref = ""] = [evt[h] EXCEPT !.ref = ""]

\* the copy agrees with the source in the fields copyEvt lists, and the source
\* event of a running Handle call is never written
C35_Copied ==
    \A h \in Procs: \A out \in SentBy(h):
        [out EXCEPT !.ref = "", !.name = ""] = [evt[h] EXCEPT !.ref = "", !.name = ""]

C35_Source ==
    [][\A h \in Procs: (pc[h] \notin {"idle", "done"} /\ pc'[h] # "idle") => evt'[h] = evt[h]]_vars

\* the ref of the event that worker i of call h hands to Send in this step is
\* empty or the id that Store.Seek gave for the target platform
RefTranslated(h, i) ==
    LET out == work'[h][i].out
        p == targets[h][i].node.plat
    IN \/ out.ref = ""
       \/ p \in DOMAIN refm[h] /\ out.ref = refm[h][p]
       \/ SeekFound(evt[h].plat, evt[h].ref, p) /\ out.ref = Seek(evt[h].plat, evt[h].ref, p)

SendsNow(h, i) ==
    /\ i \in DOMAIN work[h] /\ work[h][i].st = "todo"
    /\ i \in DOMAIN work'[h] /\ work'[h][i].st = "sent"

C36_Converted ==
    [][\A h \in Procs: \A i \in 1..Cardinality(Plats):
          (SendsNow(h, i) /\ needRefConvert(evt[h])) => RefTranslated(h, i)]_vars

\* Handle call h is for an event of P2 that refers to "b", the id under which
\* message "a" of P1 was relayed to P2
RefersBack(h) == pc[h] # "idle" /\ evt[h].plat = "P2" /\ evt[h].ref = "b"

\* such an event reaches P1 only as a message, with its ref cleared
BackCleared(h) == \A out \in SentBy(h): evt[h].kind = Msg /\ out.ref = ""

\* C37: after m was relayed from P to Q as m', an event from Q with ref = m'
\* is delivered to P with ref cleared when it is a reply, and is not delivered
\* when it is an edit or a revoke.
C37_Claim == \A h \in Procs: RefersBack(h) => BackCleared(h)

\* the same in the behaviours in which the relayed message, coming back from
\* P2, was recognised as an echo
C37_Directional ==
    \A h \in Procs:
        (RefersBack(h) /\ \A g \in Procs: (pc[g] # "idle" /\ evt[g].plat = "P2" /\ evt[g].id = "b") => hist[g].echo)
            => BackCleared(h)

\* a reply has gone back to P1 with its ref cleared and an edit was dropped
C37_Seen ==
    \E h, g \in Procs:
        /\ RefersBack(h) /\ SentBy(h) # {} /\ BackCleared(h)
        /\ RefersBack(g) /\ evt[g].kind = Edit /\ \E i \in DOMAIN work[g]: work[g][i].st = "drop"

\* the mapping tuples the writer executes in this step
AppliedMaps == {q \in BagToSet(Applied): q[1] # "purge"}

\* row r holds the key of tuple q with another destination id
Clash(r, q) == r.sp = q[1] /\ r.sm = q[2] /\ r.dp = q[3] /\ r.dm # q[4]

\* C38: when the writer executes SaveMapping for a (srcPlatform, srcMsg,
\* dstPlatform) triple that has a row with a different dstMsg, that row stays
\* the only row of the triple, and IsEcho(dstPlatform, new dstMsg), if false
\* before, stays false unless another mapping of the same batch maps to that id.
C38_Thm ==
    [][\A q \in AppliedMaps: \A r \in maps: Clash(r, q) =>
          /\ {x \in maps': x.sp = q[1] /\ x.sm = q[2] /\ x.dp = q[3]} = {r}
          /\ (/\ ~Echo(q[3], q[4])
              /\ \A p \in AppliedMaps: (p[3] = q[3] /\ p[4] = q[4]) => p = q)
                => ~(\E x \in maps': x.dp = q[3] /\ x.dm = q[4])
      ]_vars

\* two destination ids were executed for one triple; the first has the row
\* and the second is no echo
C38_Wit ==
    \E q1, q2 \in BagToSet(execd):
        /\ q1[1] # "purge" /\ q2[1] # "purge"
        /\ \E r \in maps: Tuple4(r) = q1 /\ Clash(r, q2)
        /\ ~Echo(q2[3], q2[4])

\* C39: Receive never uses a missing bridge group: a call whose MatchAndBridge
\* returned no group and no error returns without dispatching and without
\* faulting.
C39_Claim == \A r \in Procs: rcv[r].st # "panic"

\* every fault is a call for an event of the hub in hub mode, and every such
\* call for an unbridged room that passes the echo cache ends in it or is on
\* its way to it
C39_HubOnly ==
    \A r \in Procs:
        /\ rcv[r].st = "panic" => (mode = "hub" /\ rcv[r].e.plat = hub /\ rcv[r].group = Nil /\ ~rcv[r].err)
        /\ (rcv[r].st = "dispatch" /\ rcv[r].group = Nil) => (mode = "hub" /\ rcv[r].e.plat = hub)

\* the calls that are inside conn.WriteJSON on connection n
Writers(n) == {c \in Procs: calls[c].st = "writing" /\ calls[c].conn = n}

\* C40: at most one goroutine writes to the OneBot WebSocket connection at a
\* time.
C40_Claim == \A n \in 1..MaxConns: Cardinality(Writers(n)) <= 1

\* mu covers the read of Client.conn: at most one call is between mu.Lock and
\* mu.Unlock, and the reader sets conn only while no call is there
C40_Load ==
    /\ Cardinality({c \in Procs: calls[c].st = "load"}) <= 1
    /\ \A c \in Procs: calls[c].st = "load" => mu = {c}
====
